---- MODULE Spec2Model ----
(***************************************************************************)
(* Chat-message ingestion and deduplication pipeline of the personal       *)
(* assistant backend: the idempotency and checkpoint store                 *)
(* (chatlog_state_store.py), the pull path (chatlog_backfill.py and the    *)
(* poller loop of app.py) and the push path (the webhook handler of        *)
(* app.py).                                                                *)
(*                                                                         *)
(* Three specifications share the store operators:                         *)
(*   SpecAdvance  sequential advance_checkpoint calls on the store;        *)
(*   SpecStore    the event-loop thread and the backfill worker thread     *)
(*                issuing store operations, one SQL statement per step;    *)
(*   Spec         the webhook handler, the target management endpoints     *)
(*                and the backfill poller, one action per handler or       *)
(*                per-talker step.                                         *)
(***************************************************************************)
EXTENDS Integers, Sequences, FiniteSets, TLC

(***************************************************************************)
(* Values.                                                                 *)
(*                                                                         *)
(* A time string is modelled by its rank in the lexicographic order of the *)
(* strings below, so that Python's str comparison is integer comparison of *)
(* ranks; TimeTable gives what datetime.fromisoformat makes of each.       *)
(*   1  "2026-02-18T02:00:00+00:00"   02:00 UTC                            *)
(*   2  "2026-02-18T09:00:00+08:00"   01:00 UTC                            *)
(*   3  "2026-02-18T10:00:00+08:00"   02:00 UTC (same instant as 1)        *)
(*   4  "2026-02-18T10:05:00+08:00"   02:05 UTC                            *)
(*   5  "not-a-time"                  ValueError                           *)
(* Python's None is NoTime for a time and NoSeq for a sequence number.     *)
(***************************************************************************)
NoTime == 0
NoSeq == -2
\* A "seq" value that int() rejects, such as the string "n/a".
NotANumber == -3

TimeTable ==
  << [parses |-> TRUE,  utc |-> 120],
     [parses |-> TRUE,  utc |-> 60],
     [parses |-> TRUE,  utc |-> 120],
     [parses |-> TRUE,  utc |-> 125],
     [parses |-> FALSE, utc |-> 0] >>

TimeStrings == 1..Len(TimeTable)
Times == TimeStrings \cup {NoTime}

MaxSeq == 2
SeqNumbers == 1..MaxSeq
Seqs == SeqNumbers \cup {NoSeq}

Talkers == {"wxid_a", "room@chatroom"}

\* str.endswith("@chatroom")
IsGroup(talker) == talker = "room@chatroom"

(***************************************************************************)
(* chatlog_state_store.py                                                  *)
(***************************************************************************)

\* _parse_iso: None for an absent value and for a string that does not
\* parse, else the instant (every string of the table carries an offset).
NoDt == -1
ParseIso(value) ==
  IF value = NoTime THEN NoDt
  ELSE IF TimeTable[value].parses THEN TimeTable[value].utc ELSE NoDt

\* `a > b` on two str values.
StrGt(a, b) == a > b

\* `x if x is not None else -1`
SeqOrMinusOne(seq) == IF seq = NoSeq THEN -1 ELSE seq

\* A row of the checkpoints table; NoCheckpoint stands for no row.
NoCheckpoint == [row |-> FALSE, time |-> NoTime, seq |-> NoSeq]
CheckpointRow(time, seq) == [row |-> TRUE, time |-> time, seq |-> seq]
CheckpointRows == {NoCheckpoint} \cup {CheckpointRow(t, s) : t \in Times, s \in Seqs}

\* load_checkpoint: (None, None) without a row, else the row's columns.
LoadCheckpoint(cps, talker) == <<cps[talker].time, cps[talker].seq>>

\* The decision of advance_checkpoint (lines 97-111), on the loaded values.
ShouldUpdate_RawOnly(current_time, current_seq, message_time, message_seq) ==
  IF current_time = NoTime THEN TRUE
  ELSE message_time # NoTime /\ StrGt(message_time, current_time)

ShouldUpdate(current_time, current_seq, message_time, message_seq) ==
  IF current_time = NoTime THEN TRUE
  ELSE LET old_dt == ParseIso(current_time)
           new_dt == ParseIso(message_time)
       IN IF new_dt # NoDt /\ old_dt # NoDt
          THEN IF new_dt > old_dt THEN TRUE
               ELSE IF new_dt = old_dt
                    THEN SeqOrMinusOne(message_seq) > SeqOrMinusOne(current_seq)
                    ELSE FALSE
          ELSE message_time # NoTime /\ StrGt(message_time, current_time)

\* The INSERT ... ON CONFLICT(talker) DO UPDATE of advance_checkpoint.
UpsertCheckpoint(cps, talker, message_time, message_seq) ==
  [cps EXCEPT ![talker] = CheckpointRow(message_time, message_seq)]

\* advance_checkpoint run without interruption.
AdvanceCheckpoint(cps, talker, message_time, message_seq) ==
  LET cur == LoadCheckpoint(cps, talker)
  IN IF ShouldUpdate(cur[1], cur[2], message_time, message_seq)
     THEN UpsertCheckpoint(cps, talker, message_time, message_seq)
     ELSE cps


(***************************************************************************)
(* Messages: the dicts a webhook payload carries and a fetch returns.      *)
(* seq and time are NoSeq and NoTime when the key is missing.              *)
(***************************************************************************)
MessageTable ==
  << [seq |-> 1, time |-> 2, sender |-> "wxid_b", senderName |-> "bob", content |-> "hello"],
     [seq |-> 2, time |-> 1, sender |-> "wxid_b", senderName |-> "bob", content |-> "deadline soon"],
     [seq |-> NotANumber, time |-> NoTime, sender |-> "wxid_v", senderName |-> "VIP", content |-> "hello"] >>

Messages == {MessageTable[i] : i \in DOMAIN MessageTable}

\* _to_int_or_none: int(value), None on TypeError (a missing key) and on
\* ValueError (a value that is no number).
ToIntOrNone(value) == IF value \in {NoSeq, NotANumber} THEN NoSeq ELSE value

\* message.get("time") if isinstance(message.get("time"), str) else None
MessageTime(message) == message.time

\* sha256 of "talker|sender|time|content": one digest per distinct text.
HashKey(talker, message) ==
  [kind |-> "sha256", talker |-> talker, seq |-> NoSeq, sender |-> message.sender,
   time |-> message.time, content |-> message.content]

\* "{talker}:{seq}"
TalkerSeqKey(talker, seq) ==
  [kind |-> "talker:seq", talker |-> talker, seq |-> seq, sender |-> "",
   time |-> NoTime, content |-> ""]

\* str(seq)
SeqKey(seq) ==
  [kind |-> "seq", talker |-> "", seq |-> seq, sender |-> "",
   time |-> NoTime, content |-> ""]

\* app._build_idempotency_key
WebhookKey_Unscoped(talker, message) ==
  LET seq == ToIntOrNone(message.seq)
  IN IF seq # NoSeq THEN SeqKey(seq) ELSE HashKey(talker, message)

WebhookKey(talker, message) ==
  LET seq == ToIntOrNone(message.seq)
  IN IF seq # NoSeq THEN TalkerSeqKey(talker, seq) ELSE HashKey(talker, message)

\* chatlog_backfill._build_idempotency_key
BackfillKey(talker, message) ==
  LET seq == ToIntOrNone(message.seq)
  IN IF seq # NoSeq THEN SeqKey(seq) ELSE HashKey(talker, message)

\* A row of processed_messages (created_at, the wall clock, is left out).
ProcessedRow(key, talker, message_time) ==
  [idempotency_key |-> key, talker |-> talker, message_time |-> message_time]

HasKey(rows, key) == \E r \in rows : r.idempotency_key = key

\* mark_processed: INSERT OR IGNORE under the primary key, one statement.
\* MarkInserted is cur.rowcount > 0, MarkProcessed the table afterwards.
MarkInserted_Always(rows, key) == TRUE

MarkInserted(rows, key) == ~HasKey(rows, key)

MarkProcessed_Replace(rows, key, talker, message_time) ==
  {r \in rows : r.idempotency_key # key} \cup {ProcessedRow(key, talker, message_time)}

MarkProcessed(rows, key, talker, message_time) ==
  IF HasKey(rows, key) THEN rows
  ELSE rows \cup {ProcessedRow(key, talker, message_time)}


(***************************************************************************)
(* chatlog_targets.py: the policy document, a JSON object keyed by talker, *)
(* modelled as a function whose domain is the configured talkers.          *)
(***************************************************************************)
VALID_GROUP_TYPES == {"relationship", "notification", "learning", "info_gap"}
VALID_CAPTURE_POLICIES == {"summary_only", "key_events", "hybrid"}
VALID_NOISE_TOLERANCE == {"low", "medium", "high"}
VALID_BUCKETS == {"00_Inbox", "10_Growth", "20_Connections", "30_Wealth", "40_ProductMind"}

TargetFields ==
  {"talker", "enabled", "group_type", "importance", "default_memory_bucket",
   "focus_topics", "important_people", "noise_tolerance", "capture_policy"}

\* _default_target
DefaultTarget_GroupForAll(talker) ==
  [talker |-> talker, enabled |-> TRUE, group_type |-> "info_gap", importance |-> 3,
   default_memory_bucket |-> "40_ProductMind", focus_topics |-> <<>>,
   important_people |-> <<>>, noise_tolerance |-> "medium",
   capture_policy |-> "summary_only"]

DefaultTarget(talker) ==
  [talker |-> talker,
   enabled |-> TRUE,
   group_type |-> IF IsGroup(talker) THEN "info_gap" ELSE "relationship",
   importance |-> 3,
   default_memory_bucket |-> IF IsGroup(talker) THEN "40_ProductMind" ELSE "20_Connections",
   focus_topics |-> <<>>,
   important_people |-> <<>>,
   noise_tolerance |-> "medium",
   capture_policy |-> "summary_only"]

\* get_target: the config, or None; an optional value is <<>> or <<config>>.
GetTarget(cfgs, talker) == IF talker \in DOMAIN cfgs THEN <<cfgs[talker]>> ELSE <<>>

\* max(1, min(5, int(x)))
ClampImportance(x) == IF x < 1 THEN 1 ELSE IF x > 5 THEN 5 ELSE x

\* upsert_target, lines 61-93: the merged and validated config. updates is
\* a record holding any of the fields.
MergedTarget(cfgs, talker, updates) ==
  LET current == IF talker \in DOMAIN cfgs THEN cfgs[talker] ELSE DefaultTarget(talker)
      merged == [f \in TargetFields |->
                   IF f = "talker" THEN talker
                   ELSE IF f \in DOMAIN updates THEN updates[f] ELSE current[f]]
  IN [talker |-> talker,
      enabled |-> merged.enabled,
      group_type |-> IF merged.group_type \in VALID_GROUP_TYPES
                     THEN merged.group_type ELSE current.group_type,
      importance |-> ClampImportance(merged.importance),
      default_memory_bucket |-> IF merged.default_memory_bucket \in VALID_BUCKETS
                                THEN merged.default_memory_bucket
                                ELSE current.default_memory_bucket,
      focus_topics |-> merged.focus_topics,
      important_people |-> merged.important_people,
      noise_tolerance |-> IF merged.noise_tolerance \in VALID_NOISE_TOLERANCE
                          THEN merged.noise_tolerance ELSE "medium",
      capture_policy |-> IF merged.capture_policy \in VALID_CAPTURE_POLICIES
                         THEN merged.capture_policy ELSE "summary_only"]

\* upsert_target: the document after data[talker] = merged and _save.
UpsertTarget(cfgs, talker, updates) ==
  [t \in DOMAIN cfgs \cup {talker} |->
     IF t = talker THEN MergedTarget(cfgs, talker, updates) ELSE cfgs[t]]

\* remove_target: the document afterwards (the one loaded when the talker has
\* no config, lines 99-100; else the one saved after del data[talker]).
RemoveTarget(cfgs, talker) == [t \in DOMAIN cfgs \ {talker} |-> cfgs[t]]

\* remove_target: what it returns.
RemoveResult_Always(cfgs, talker) == TRUE

RemoveResult(cfgs, talker) == talker \in DOMAIN cfgs

\* list_targets sorts by talker: the talkers in str order.
TalkerOrder == <<"room@chatroom", "wxid_a">>

\* list_targets: the configs, sorted by talker.
ListTargets(cfgs) ==
  LET present == SelectSeq(TalkerOrder, LAMBDA t : t \in DOMAIN cfgs)
  IN [i \in DOMAIN present |-> cfgs[present[i]]]

\* enabled_talkers
EnabledTalkers_AllConfigured(cfgs) ==
  SelectSeq(TalkerOrder, LAMBDA t : t \in DOMAIN cfgs)

EnabledTalkers(cfgs) ==
  SelectSeq(TalkerOrder, LAMBDA t : t \in DOMAIN cfgs /\ cfgs[t].enabled)

(***************************************************************************)
(* Text. A str is the sequence of its characters; TextTable gives it for   *)
(* every string literal the model uses in a message or in a config.        *)
(***************************************************************************)
TextTable ==
     "" :> <<>>
  @@ " " :> <<" ">>
  @@ "hello" :> <<"h", "e", "l", "l", "o">>
  @@ "deadline soon" :> <<"d", "e", "a", "d", "l", "i", "n", "e", " ", "s", "o", "o", "n">>
  @@ "DEADLINE soon" :> <<"D", "E", "A", "D", "L", "I", "N", "E", " ", "s", "o", "o", "n">>
  @@ "bob" :> <<"b", "o", "b">>
  @@ "VIP" :> <<"V", "I", "P">>
  @@ "wxid_b" :> <<"w", "x", "i", "d", "_", "b">>
  @@ "wxid_v" :> <<"w", "x", "i", "d", "_", "v">>
  @@ "vip" :> <<"v", "i", "p">>
  @@ "VI" :> <<"V", "I">>
  @@ " VIP " :> <<" ", "V", "I", "P", " ">>
  @@ "P|w" :> <<"P", "|", "w">>

TextOf(s) == TextTable[s]

\* needle in hay
Contains(hay, needle) ==
  \E i \in 0..(Len(hay) - Len(needle)) : SubSeq(hay, i + 1, i + Len(needle)) = needle

\* str.lower, on the letters of TextTable
LowerChar(c) ==
  CASE c = "A" -> "a" [] c = "D" -> "d" [] c = "E" -> "e" [] c = "I" -> "i"
    [] c = "L" -> "l" [] c = "N" -> "n" [] c = "P" -> "p" [] c = "V" -> "v"
    [] OTHER -> c

Lower(text) == [i \in DOMAIN text |-> LowerChar(text[i])]

\* str.strip
RECURSIVE Strip(_)
Strip(text) ==
  IF text = <<>> THEN text
  ELSE IF Head(text) = " " THEN Strip(Tail(text))
  ELSE IF text[Len(text)] = " " THEN Strip(SubSeq(text, 1, Len(text) - 1))
  ELSE text

(***************************************************************************)
(* app.py: the acceptance policy.                                          *)
(***************************************************************************)

\* The keywords of _is_notification_important (line 351).
Keywords ==
  { <<"u", "r", "g", "e", "n", "t">>,
    <<"i", "m", "p", "o", "r", "t", "a", "n", "t">>,
    <<"d", "e", "a", "d", "l", "i", "n", "e">>,
    <<"m", "e", "e", "t", "i", "n", "g">>,
    <<"r", "i", "s", "k">>,
    <<"a", "l", "e", "r", "t">>,
    <<"n", "o", "t", "i", "c", "e">> }

\* The strings of TextTable that _is_notification_important accepts as a
\* content: a keyword is in the lower-cased content.
NotableContents ==
  {s \in DOMAIN TextTable : \E k \in Keywords : Contains(Lower(TextOf(s)), k)}

\* _is_notification_important
IsNotificationImportant(message) == message.content \in NotableContents

\* The (senderName, sender, entry of important_people) triples of TextTable
\* for which the entry counts as a hit: stripped (line 381) it is not blank,
\* and `p in hay` with hay = f"{sender_name}|{sender}" (lines 358-361).
PeopleHits ==
  {h \in (DOMAIN TextTable) \X (DOMAIN TextTable) \X (DOMAIN TextTable) :
     LET p == Strip(TextOf(h[3]))
         hay == TextOf(h[1]) \o <<"|">> \o TextOf(h[2])
     IN p # <<>> /\ Contains(hay, p)}

\* _hits_important_people, on the raw entries of important_people
HitsImportantPeople(message, people) ==
  \E i \in DOMAIN people : <<message.senderName, message.sender, people[i]>> \in PeopleHits

\* _capture_policy
CapturePolicy(target) ==
  IF target.capture_policy \in {"summary_only", "key_events", "hybrid"}
  THEN target.capture_policy ELSE "summary_only"

\* _should_accept_group_message; target is <<>> for None.
ShouldAcceptGroupMessage(target, message) ==
  IF target = <<>> THEN TRUE
  ELSE LET cfg == target[1]
       IN IF cfg.group_type = "notification" THEN IsNotificationImportant(message)
          ELSE LET policy == CapturePolicy(cfg)
               IN IF policy = "summary_only" THEN FALSE
                  ELSE IF policy = "key_events" THEN IsNotificationImportant(message)
                  ELSE HitsImportantPeople(message, cfg.important_people)
                       \/ IsNotificationImportant(message)

\* The running maximum both ingest loops keep (app.py lines 1078-1084,
\* chatlog_backfill.py lines 109-115): the new <<max_time, max_seq>>.
TrackMax(max_time, max_seq, message_time, seq) ==
  IF max_time = NoTime \/ (message_time # NoTime /\ StrGt(message_time, max_time))
  THEN <<message_time, seq>>
  ELSE IF message_time = max_time /\ seq # NoSeq /\ seq > SeqOrMinusOne(max_seq)
       THEN <<max_time, seq>>
       ELSE <<max_time, max_seq>>

\* mode of a talker (app.py line 1099)
ModeOf(talker) == IF IsGroup(talker) THEN "group_digest" ELSE "contact_realtime"

\* The local variables of the webhook handler's loop (lines 1057-1061) and
\* the table it writes.
WebhookLoopStart(rows) ==
  [rows |-> rows, accepted |-> 0, deduped |-> 0, max_time |-> NoTime, max_seq |-> NoSeq,
   accepted_messages |-> <<>>]

\* One iteration of the webhook handler's loop, lines 1063-1084.
WebhookLoopStep_CountsDuplicates(st, talker, target, message) ==
  LET key == WebhookKey(talker, message)
      message_time == MessageTime(message)
      rows == MarkProcessed(st.rows, key, talker, message_time)
      seq == ToIntOrNone(message.seq)
      mx == TrackMax(st.max_time, st.max_seq, message_time, seq)
  IN IF IsGroup(talker) /\ target # <<>> /\ ~ShouldAcceptGroupMessage(target, message)
     THEN [st EXCEPT !.rows = rows, !.deduped = @ + 1]
     ELSE [rows |-> rows, accepted |-> st.accepted + 1, deduped |-> st.deduped,
           max_time |-> mx[1], max_seq |-> mx[2],
           accepted_messages |-> Append(st.accepted_messages, message)]

WebhookLoopStep_PolicyBeforeMark(st, talker, target, message) ==
  LET key == WebhookKey(talker, message)
      message_time == MessageTime(message)
      inserted == MarkInserted(st.rows, key)
      rows == MarkProcessed(st.rows, key, talker, message_time)
      seq == ToIntOrNone(message.seq)
      mx == TrackMax(st.max_time, st.max_seq, message_time, seq)
  IN IF IsGroup(talker) /\ target # <<>> /\ ~ShouldAcceptGroupMessage(target, message)
     THEN [st EXCEPT !.deduped = @ + 1]
     ELSE IF ~inserted
     THEN [st EXCEPT !.rows = rows, !.deduped = @ + 1]
     ELSE [rows |-> rows, accepted |-> st.accepted + 1, deduped |-> st.deduped,
           max_time |-> mx[1], max_seq |-> mx[2],
           accepted_messages |-> Append(st.accepted_messages, message)]

WebhookLoopStep(st, talker, target, message) ==
  LET key == WebhookKey(talker, message)
      message_time == MessageTime(message)
      inserted == MarkInserted(st.rows, key)
      rows == MarkProcessed(st.rows, key, talker, message_time)
      seq == ToIntOrNone(message.seq)
      mx == TrackMax(st.max_time, st.max_seq, message_time, seq)
  IN IF ~inserted
     THEN [st EXCEPT !.rows = rows, !.deduped = @ + 1]
     ELSE IF IsGroup(talker) /\ target # <<>> /\ ~ShouldAcceptGroupMessage(target, message)
     THEN [st EXCEPT !.rows = rows, !.deduped = @ + 1]
     ELSE [rows |-> rows, accepted |-> st.accepted + 1, deduped |-> st.deduped,
           max_time |-> mx[1], max_seq |-> mx[2],
           accepted_messages |-> Append(st.accepted_messages, message)]

\* The webhook handler's loop over payload.messages.
RECURSIVE WebhookLoop(_, _, _, _)
WebhookLoop(st, talker, target, messages) ==
  IF messages = <<>> THEN st
  ELSE WebhookLoop(WebhookLoopStep(st, talker, target, Head(messages)),
                   talker, target, Tail(messages))

\* _persist_chatlog_note, lines 293-307: the bucket of the note.
NoteBucket_IgnoresGroupType(cfgs, talker, mode) ==
  IF mode = "contact_realtime" THEN "20_Connections"
  ELSE IF mode = "group_digest"
  THEN LET target == GetTarget(cfgs, talker)
       IN IF target = <<>> THEN "40_ProductMind" ELSE target[1].default_memory_bucket
  ELSE "00_Inbox"

NoteBucket(cfgs, talker, mode) ==
  IF mode = "contact_realtime" THEN "20_Connections"
  ELSE IF mode = "group_digest"
  THEN LET target == GetTarget(cfgs, talker)
           group_type == IF target = <<>> THEN "info_gap" ELSE target[1].group_type
       IN IF group_type = "relationship" THEN "20_Connections"
          ELSE IF group_type = "learning" THEN "10_Growth"
          ELSE IF group_type = "notification" THEN "00_Inbox"
          ELSE IF target = <<>> THEN "40_ProductMind" ELSE target[1].default_memory_bucket
  ELSE "00_Inbox"


(***************************************************************************)
(* chatlog_backfill.py: run_backfill_once, one talker of its loop.         *)
(* The store calls of one talker are numbered in the order they are made   *)
(* (1 is load_checkpoint, then each mark_processed, then                   *)
(* advance_checkpoint); fault is the number of the call that raises        *)
(* sqlite3.Error, 0 for none.                                              *)
(***************************************************************************)

\* The locals of the inner loop (lines 95-97), the table it writes, the
\* number of store calls made so far and whether one has raised.
BackfillLoopStart(rows) ==
  [rows |-> rows, accepted |-> 0, max_time |-> NoTime, max_seq |-> NoSeq,
   accepted_messages |-> <<>>, calls |-> 1, raised |-> FALSE]

\* should_accept_message as app.py passes it (lines 718-722).
BackfillShouldAccept(cfgs, talker, message) ==
  IF IsGroup(talker) THEN ShouldAcceptGroupMessage(GetTarget(cfgs, talker), message) ELSE TRUE

\* One iteration of the inner loop, lines 98-115.
BackfillLoopStep(st, cfgs, talker, message, fault) ==
  LET key == BackfillKey(talker, message)
      message_time == MessageTime(message)
      inserted == MarkInserted(st.rows, key)
      rows == MarkProcessed(st.rows, key, talker, message_time)
      seq == ToIntOrNone(message.seq)
      mx == TrackMax(st.max_time, st.max_seq, message_time, seq)
  IN IF st.raised THEN st
     ELSE IF ~BackfillShouldAccept(cfgs, talker, message) THEN st
     ELSE IF st.calls + 1 = fault THEN [st EXCEPT !.calls = @ + 1, !.raised = TRUE]
     ELSE IF ~inserted THEN [st EXCEPT !.rows = rows, !.calls = @ + 1]
     ELSE [rows |-> rows, accepted |-> st.accepted + 1,
           max_time |-> mx[1], max_seq |-> mx[2],
           accepted_messages |-> Append(st.accepted_messages, message),
           calls |-> st.calls + 1, raised |-> FALSE]

\* The inner loop over the fetched messages.
RECURSIVE BackfillLoop(_, _, _, _, _)
BackfillLoop(st, cfgs, talker, messages, fault) ==
  IF messages = <<>> THEN st
  ELSE BackfillLoop(BackfillLoopStep(st, cfgs, talker, Head(messages), fault),
                    cfgs, talker, Tail(messages), fault)

\* The number of store calls one talker's iteration makes when none raises.
StoreCallsOf(rows, cfgs, talker, messages) ==
  LET st == BackfillLoop(BackfillLoopStart(rows), cfgs, talker, messages, 0)
  IN st.calls + (IF st.accepted > 0 THEN 1 ELSE 0)

\* The counters of run_backfill_once (lines 74-76) with the position in
\* `for talker in talkers`.
BackfillRunStart(talkers) ==
  [talkers |-> talkers, idx |-> 1, scanned |-> 0, accepted_total |-> 0, errors |-> 0]

\* Lines 91-93: the fetch raised; count it and go on with the next talker.
FetchFailed_NotCounted(run) ==
  [run EXCEPT !.idx = @ + 1, !.scanned = @ + 1]

FetchFailed_Break(run) ==
  [run EXCEPT !.idx = Len(run.talkers) + 1, !.scanned = @ + 1, !.errors = @ + 1]

FetchFailed(run) ==
  [run EXCEPT !.idx = @ + 1, !.scanned = @ + 1, !.errors = @ + 1]

\* Lines 117-119 and the end of the iteration.
TalkerDone(run, accepted) ==
  [run EXCEPT !.idx = @ + 1, !.scanned = @ + 1, !.accepted_total = @ + accepted]

\* The report run_backfill_once returns (line 121).
ReportOf(run) == [scanned |-> run.scanned, accepted |-> run.accepted_total, errors |-> run.errors]

VARIABLES
  processed,     \* table processed_messages: a set of rows
  checkpoints,   \* table checkpoints: talker -> row or NoCheckpoint
  advHist,       \* SpecAdvance: talker -> the (time, seq) arguments so far
  advCount,      \* SpecAdvance: number of calls so far
  thread,        \* SpecStore: thread -> where it is in a store call
  markLog,       \* SpecStore: key -> mark_processed calls made, and won
  storeOps,      \* SpecStore: number of store calls started
  targets,       \* the policy document: talker -> config
  runtime,       \* CHATLOG_RUNTIME
  notes,         \* the memory notes persisted by create_bucket_note
  bf,            \* the poller task: where it is, and the run's counters
  whLast,        \* the latest webhook request and its response
  whAccepted,    \* what the webhook path has accepted so far
  bfLast,        \* the latest talker iteration of the backfill
  bfLog,         \* the talker iterations of the current cycle
  mgmtOps,       \* number of target management requests so far
  mgmtLast,      \* the latest target management request
  policyCall,    \* SpecPolicy: the latest call of the acceptance evaluator
  health,        \* SpecHealth: the latest computation of the health signals
  window,        \* SpecWindow: the latest fetch window of the backfill
  saving,        \* SpecDocRace: the write of the policy document in progress
  bridge,        \* SpecBridge: the tasks and the per-chat locks of the IM bridge
  agent          \* SpecAgentRun: the handler of the latest message of the IM bridge

storeVars == <<processed, checkpoints>>
advVars == <<advHist, advCount>>
threadVars == <<thread, markLog, storeOps>>
policyVars == <<policyCall>>
healthVars == <<health>>
otherVars == <<window, saving, bridge, agent>>
mgmtVars == <<mgmtOps, mgmtLast>>
appVars == <<targets, runtime, notes, bf, whLast, whAccepted, bfLast, bfLog, mgmtVars>>
vars == <<processed, checkpoints, advHist, advCount, thread, markLog, storeOps,
          targets, runtime, notes, bf, whLast, whAccepted, bfLast, bfLog, mgmtOps,
          mgmtLast, policyCall, health, window, saving, bridge, agent>>


\* _load without a file: {}
NoDoc == [t \in {} |-> DefaultTarget(t)]

NoHealth ==
  [n |-> 0, threshold |-> 0, min_total |-> 0, ratio |-> <<0, 1>>,
   backfill_error_alert |-> FALSE, webhook_dedup_alert |-> FALSE,
   bridge |-> "", status |-> ""]

\* FeishuWSBridge.__init__ (feishu_ws_bridge.py lines 733-734): no lock yet.
\* tasks are the _handle_text_serialized tasks in creation order, locks the
\* asyncio.Lock objects created so far, chat_locks the dict _chat_locks as
\* chat_id -> index into locks.
NoBridge == [tasks |-> <<>>, locks |-> <<>>, chat_locks |-> [c \in {} |-> 0]]

\* No message handled yet: no chat has cleared its session (the generation
\* _load_chat_session_state gives without a state file, lines 126-128).
NoAgent ==
  [pc |-> "idle", n |-> 0, generation |-> [c \in {"oc_a", "oc_b"} |-> 0],
   chat_id |-> "", text |-> "", conversation_id |-> <<>>,
   calls |-> <<>>, outcomes |-> <<>>, sends |-> <<>>]

NoWindow ==
  [n |-> 0, now |-> 0, checkpoint_time |-> <<>>, bootstrap_days |-> 0,
   from_date |-> 0, to_date |-> 0]

NoRequest ==
  [op |-> "none", talker |-> "", body |-> <<>>, updates |-> <<>>, removed |-> FALSE,
   served |-> 0]

NoWebhook ==
  [n |-> 0, talker |-> "", messages |-> <<>>, token_ok |-> FALSE, status |-> 0,
   accepted |-> 0, mode |-> "", delivered |-> 0, replay |-> FALSE]
NoPolicyCall == [n |-> 0, target |-> <<>>, message |-> <<>>, result |-> FALSE]
NoBackfillStep ==
  [n |-> 0, talker |-> "", outcome |-> "none", fetched |-> <<>>, accepted |-> 0,
   accepted_messages |-> <<>>, candidate |-> <<NoTime, NoSeq>>]

\* CHATLOG_RUNTIME as the module defines it (app.py lines 84-92).
InitRuntime ==
  /\ runtime = [webhook_accepted_total |-> 0, webhook_deduped_total |-> 0,
                last_backfill_report |-> <<>>, backfill_errors_total |-> 0,
                backfill_consecutive_error_runs |-> 0]

\* The handlers have served nothing yet.
InitHandlers ==
  /\ notes = <<>>
  /\ bf = [pc |-> "start", run |-> BackfillRunStart(<<>>), cancelled |-> FALSE]
  /\ whLast = NoWebhook
  /\ whAccepted = {}
  /\ bfLast = NoBackfillStep
  /\ bfLog = <<>>
  /\ mgmtOps = 0
  /\ mgmtLast = NoRequest
  /\ policyCall = NoPolicyCall
  /\ health = NoHealth
  /\ window = NoWindow
  /\ saving = <<>>
  /\ bridge = NoBridge
  /\ agent = NoAgent

\* The application after startup, the policy document apart: the counters of
\* CHATLOG_RUNTIME at zero, the poller task created (lines 690-695) and
\* about to read the enabled talkers.
InitApp == InitRuntime /\ InitHandlers

\* The threads of SpecStore and what each is doing.
Threads == {"event_loop", "worker"}
MaxStoreOps == 4

Idle == [pc |-> "idle", talker |-> "", time |-> NoTime, seq |-> NoSeq]

\* The key a thread's path derives for a message.
PathKey(th, talker, message) ==
  IF th = "event_loop" THEN WebhookKey(talker, message) ELSE BackfillKey(talker, message)

AllKeys == {PathKey(th, t, m) : th \in Threads, t \in Talkers, m \in Messages}

\* What is remembered of the mark_processed calls on one key: how many were
\* made and by which threads, how many returned True, and the talker and
\* message_time of the latest.
NoCalls == [calls |-> 0, wins |-> 0, callers |-> {}, talker |-> "", time |-> NoTime]

InitThreads ==
  /\ thread = [th \in Threads |-> Idle]
  /\ markLog = [k \in AllKeys |-> NoCalls]
  /\ storeOps = 0

(***************************************************************************)
(* SpecAdvance: advance_checkpoint called any number of times, in any      *)
(* order, with any arguments, one call after the other.                    *)
(***************************************************************************)
MaxCalls == 3

InitStore ==
  /\ processed = {}
  /\ checkpoints = [t \in Talkers |-> NoCheckpoint]

InitAdvHarness ==
  /\ advHist = [t \in Talkers |-> {}]
  /\ advCount = 0

AdvanceCall(talker, time, seq) ==
  /\ advCount < MaxCalls
  /\ checkpoints' = AdvanceCheckpoint(checkpoints, talker, time, seq)
  /\ advHist' = [advHist EXCEPT ![talker] = @ \cup {<<time, seq>>}]
  /\ advCount' = advCount + 1
  /\ UNCHANGED <<processed, threadVars, appVars, policyVars, healthVars, otherVars>>

InitAdvance == InitStore /\ InitAdvHarness /\ InitThreads /\ InitApp /\ targets = NoDoc

NextAdvance == \E talker \in Talkers, time \in Times, seq \in Seqs : AdvanceCall(talker, time, seq)

SpecAdvance == InitAdvance /\ [][NextAdvance]_vars


(***************************************************************************)
(* SpecStore: the two threads that use the store. The webhook handler runs *)
(* on the event-loop thread; run_backfill_once runs on a worker thread     *)
(* (asyncio.to_thread, app.py line 706). Each opens its own connection, so *)
(* the unit of interleaving is one SQL statement: mark_processed is one    *)
(* INSERT OR IGNORE, advance_checkpoint is a SELECT (load_checkpoint),     *)
(* the comparison in Python, and then an upsert in another connection.     *)
(***************************************************************************)
\* store.mark_processed(key, talker, message_time), as either path calls it.
ThreadMark(th, talker, message) ==
  LET key == PathKey(th, talker, message)
      inserted == MarkInserted(processed, key)
  IN /\ thread[th].pc = "idle"
     /\ storeOps < MaxStoreOps
     /\ processed' = MarkProcessed(processed, key, talker, MessageTime(message))
     /\ markLog' = [markLog EXCEPT ![key] =
                      [calls |-> @.calls + 1,
                       wins |-> @.wins + (IF inserted THEN 1 ELSE 0),
                       callers |-> @.callers \cup {th},
                       talker |-> talker,
                       time |-> MessageTime(message)]]
     /\ storeOps' = storeOps + 1
     /\ UNCHANGED <<checkpoints, thread, advVars, appVars, policyVars, healthVars, otherVars>>

\* advance_checkpoint, lines 95-114: load the row and decide.
ThreadAdvanceLoad(th, talker, time, seq) ==
  LET cur == LoadCheckpoint(checkpoints, talker)
  IN /\ thread[th].pc = "idle"
     /\ storeOps < MaxStoreOps
     /\ thread' = [thread EXCEPT ![th] =
                     IF ShouldUpdate(cur[1], cur[2], time, seq)
                     THEN [pc |-> "upsert", talker |-> talker, time |-> time, seq |-> seq]
                     ELSE Idle]
     /\ storeOps' = storeOps + 1
     /\ UNCHANGED <<storeVars, markLog, advVars, appVars, policyVars, healthVars, otherVars>>

\* advance_checkpoint, lines 116-128: write what was decided.
ThreadAdvanceUpsert(th) ==
  /\ thread[th].pc = "upsert"
  /\ checkpoints' = UpsertCheckpoint(checkpoints, thread[th].talker, thread[th].time, thread[th].seq)
  /\ thread' = [thread EXCEPT ![th] = Idle]
  /\ UNCHANGED <<processed, markLog, storeOps, advVars, appVars, policyVars, healthVars, otherVars>>

NextStore ==
  \/ \E th \in Threads, t \in Talkers, m \in Messages : ThreadMark(th, t, m)
  \/ \E th \in Threads, t \in Talkers, m \in Messages :
       ThreadAdvanceLoad(th, t, MessageTime(m), ToIntOrNone(m.seq))
  \/ \E th \in Threads : ThreadAdvanceUpsert(th)

InitStoreSpec == InitStore /\ InitAdvHarness /\ InitThreads /\ InitApp /\ targets = NoDoc

SpecStore == InitStoreSpec /\ [][NextStore]_vars


(***************************************************************************)
(* Spec: the webhook endpoint, the target management endpoints and the     *)
(* backfill poller. Handlers run on the event loop and do not await, so a  *)
(* handler is one step; run_backfill_once runs on the worker thread and    *)
(* other requests are served between its talkers. The configuration is the *)
(* one the tests set: chatlog_enabled, a webhook token, a base URL.        *)
(***************************************************************************)
\* The message lists of at most n messages: a webhook payload, a fetch result.
Batches(n) == UNION {[1..k -> Messages] : k \in 0..n}

\* The bodies sent to POST /api/integrations/chatlog/targets/upsert; the
\* request model fills every field that is left out (app.py lines 140-149).
UpsertPayload(enabled, group_type, capture_policy, important_people) ==
  [enabled |-> enabled, group_type |-> group_type, importance |-> 3,
   default_memory_bucket |-> "40_ProductMind", focus_topics |-> <<>>,
   important_people |-> important_people, noise_tolerance |-> "medium",
   capture_policy |-> capture_policy]

UpsertPayloads ==
  { UpsertPayload(TRUE, "info_gap", "summary_only", <<>>),
    UpsertPayload(FALSE, "info_gap", "summary_only", <<>>),
    UpsertPayload(TRUE, "info_gap", "hybrid", <<"VIP">>),
    UpsertPayload(TRUE, "notification", "key_events", <<>>) }

\* The response of the webhook handler, with the request it answers, the
\* number of messages delivered so far, and whether the request repeats the
\* one before it, which accepted a message.
WebhookResponse(talker, messages, token_ok, status, accepted) ==
  [n |-> whLast.n + 1, talker |-> talker, messages |-> messages, token_ok |-> token_ok,
   status |-> status, accepted |-> accepted,
   mode |-> IF status = 200 THEN ModeOf(talker) ELSE "",
   delivered |-> whLast.delivered + Len(messages),
   replay |-> /\ whLast.status = 200 /\ whLast.accepted = 1 /\ token_ok
              /\ whLast.talker = talker /\ whLast.messages = messages]

\* The status a request is refused with before the handler body runs, 0 when
\* it is not refused: the request model requires at least one message
\* (app.py line 130, a 422 from validation), then the token is compared
\* (lines 1043-1044).
Rejection_TokenNotChecked(messages, token_ok) ==
  IF messages = <<>> THEN 422 ELSE 0

Rejection(messages, token_ok) ==
  IF messages = <<>> THEN 422 ELSE IF ~token_ok THEN 403 ELSE 0

\* app.py line 1047: the talker has a config and it says enabled = false.
TargetDisabled_Never(target) == FALSE

TargetDisabled(target) == target # <<>> /\ ~target[1].enabled

\* chatlog_webhook (app.py lines 1031-1105). note_ok is whether
\* create_bucket_note returns; when it raises, the handler ends there.
Webhook(talker, messages, token_ok, note_ok) ==
  LET target == GetTarget(targets, talker)
      st == WebhookLoop(WebhookLoopStart(processed), talker, target, messages)
      mode == ModeOf(talker)
      note == [source |-> "chatlog_webhook", talker |-> talker, mode |-> mode,
               bucket |-> NoteBucket(targets, talker, mode),
               accepted_count |-> Len(st.accepted_messages)]
      rejected == Rejection(messages, token_ok)
  IN /\ IF rejected # 0
        THEN /\ whLast' = WebhookResponse(talker, messages, token_ok, rejected, 0)
             /\ UNCHANGED <<storeVars, runtime, notes, whAccepted>>
        ELSE IF TargetDisabled(target)
        THEN /\ whLast' = WebhookResponse(talker, messages, token_ok, 200, 0)
             /\ UNCHANGED <<storeVars, runtime, notes, whAccepted>>
        ELSE /\ processed' = st.rows
             /\ checkpoints' = IF st.accepted > 0
                               THEN AdvanceCheckpoint(checkpoints, talker, st.max_time, st.max_seq)
                               ELSE checkpoints
             /\ IF st.accepted > 0 /\ ~note_ok
                THEN /\ whLast' = WebhookResponse(talker, messages, token_ok, 500, 0)
                     /\ UNCHANGED <<runtime, notes, whAccepted>>
                ELSE /\ notes' = IF st.accepted > 0 THEN Append(notes, note) ELSE notes
                     /\ runtime' = [runtime EXCEPT
                                      !.webhook_accepted_total = @ + st.accepted,
                                      !.webhook_deduped_total = @ + st.deduped]
                     /\ whLast' = WebhookResponse(talker, messages, token_ok, 200, st.accepted)
                     /\ whAccepted' = whAccepted \cup {<<talker, st.accepted_messages[i]>> :
                                                          i \in DOMAIN st.accepted_messages}
     /\ UNCHANGED <<targets, bf, bfLast, bfLog, mgmtVars, advVars, threadVars, policyVars, healthVars, otherVars>>

\* What a target management request leaves behind it: the operation, the
\* talker, the updates handed to upsert_target, and the number of webhook
\* requests served before it.
ManagementRequest(op, talker, body, updates, removed) ==
  [op |-> op, talker |-> talker, body |-> body, updates |-> updates, removed |-> removed,
   served |-> whLast.n]

\* ChatlogTargetUpsertRequest (app.py lines 140-149): the value the request
\* model gives each field the body leaves out.
RequestDefaults ==
  [enabled |-> TRUE, group_type |-> "info_gap", importance |-> 3,
   default_memory_bucket |-> "40_ProductMind", focus_topics |-> <<>>,
   important_people |-> <<>>, noise_tolerance |-> "medium",
   capture_policy |-> "summary_only"]

\* The updates the endpoint hands to upsert_target (lines 1117-1128): every
\* field of the parsed request, the body's value or the model's default.
RequestPayload(body) ==
  [f \in DOMAIN RequestDefaults |-> IF f \in DOMAIN body THEN body[f] ELSE RequestDefaults[f]]

\* upsert_chatlog_target (app.py lines 1114-1130)
TargetUpsert(talker, body) ==
  /\ targets' = UpsertTarget(targets, talker, RequestPayload(body))
  /\ mgmtOps' = mgmtOps + 1
  /\ mgmtLast' = ManagementRequest("upsert", talker, body, RequestPayload(body), FALSE)
  /\ UNCHANGED <<storeVars, runtime, notes, bf, whLast, whAccepted, bfLast, bfLog,
                 advVars, threadVars, policyVars, healthVars, otherVars>>

\* handle_memory_group_command, `/memory group add|update <talker> k=v ...`
\* (feishu_ws_bridge.py lines 554-586): only the fields named in the command
\* are handed to upsert_target.
GroupUpdate(talker, updates) ==
  /\ targets' = UpsertTarget(targets, talker, updates)
  /\ mgmtOps' = mgmtOps + 1
  /\ mgmtLast' = ManagementRequest("update", talker, updates, updates, FALSE)
  /\ UNCHANGED <<storeVars, runtime, notes, bf, whLast, whAccepted, bfLast, bfLog,
                 advVars, threadVars, policyVars, healthVars, otherVars>>

\* remove_chatlog_target (app.py lines 1133-1137)
TargetRemove(talker) ==
  /\ targets' = RemoveTarget(targets, talker)
  /\ mgmtOps' = mgmtOps + 1
  /\ mgmtLast' = ManagementRequest("remove", talker, <<>>, <<>>, RemoveResult(targets, talker))
  /\ UNCHANGED <<storeVars, runtime, notes, bf, whLast, whAccepted, bfLast, bfLog,
                 advVars, threadVars, policyVars, healthVars, otherVars>>

\* _chatlog_backfill_loop, lines 700-706: read the enabled talkers; sleep
\* when there are none, else start run_backfill_once on the worker thread.
BackfillCycleStart ==
  LET talkers == EnabledTalkers(targets)
  IN /\ bf.pc = "start"
     /\ bf' = IF talkers = <<>>
              THEN [bf EXCEPT !.pc = "sleeping"]
              ELSE [bf EXCEPT !.pc = "running", !.run = BackfillRunStart(talkers)]
     /\ bfLog' = <<>>
     /\ UNCHANGED <<storeVars, targets, runtime, notes, whLast, whAccepted, bfLast,
                    mgmtVars, advVars, threadVars, policyVars, healthVars, otherVars>>

\* What one iteration of `for talker in talkers` leaves behind it.
BackfillStepRecord(talker, outcome, fetched, st, candidate) ==
  [n |-> bfLast.n + 1, talker |-> talker, outcome |-> outcome, fetched |-> fetched,
   accepted |-> st.accepted, accepted_messages |-> st.accepted_messages,
   candidate |-> candidate]

\* run_backfill_once, lines 78-119: one talker. fetch_ok is whether
\* fetch_messages returns (then it returns `fetched`), fault the store call
\* that raises. An exception of the store is not caught: it ends
\* run_backfill_once and, through asyncio.to_thread, the poller task.
BackfillTalker(fetch_ok, fetched, fault) ==
  LET run == bf.run
      talker == run.talkers[run.idx]
      st == BackfillLoop(BackfillLoopStart(processed), targets, talker, fetched, fault)
      advance_raises == ~st.raised /\ st.accepted > 0 /\ st.calls + 1 = fault
      start == BackfillLoopStart(processed)
  IN /\ bf.pc = "running"
     /\ run.idx <= Len(run.talkers)
     /\ fault = 0 \/ fetch_ok \/ fault = 1
     /\ ~fetch_ok => fetched = <<>>
     /\ fault <= StoreCallsOf(processed, targets, talker, fetched)
     /\ IF fault = 1
        THEN /\ bf' = [bf EXCEPT !.pc = "crashed"]
             /\ bfLast' = BackfillStepRecord(talker, "store_error", <<>>, start, <<NoTime, NoSeq>>)
             /\ UNCHANGED <<storeVars, bfLog>>
        ELSE IF ~fetch_ok
        THEN /\ bf' = [bf EXCEPT !.run = FetchFailed(run)]
             /\ bfLast' = BackfillStepRecord(talker, "fetch_error", <<>>, start, <<NoTime, NoSeq>>)
             /\ bfLog' = Append(bfLog, [talker |-> talker, outcome |-> "fetch_error", accepted |-> 0])
             /\ UNCHANGED storeVars
        ELSE IF st.raised \/ advance_raises
        THEN /\ processed' = st.rows
             /\ bf' = [bf EXCEPT !.pc = "crashed"]
             /\ bfLast' = BackfillStepRecord(talker, "store_error", fetched, st,
                                             <<st.max_time, st.max_seq>>)
             /\ UNCHANGED <<checkpoints, bfLog>>
        ELSE /\ processed' = st.rows
             /\ checkpoints' = IF st.accepted > 0
                               THEN AdvanceCheckpoint(checkpoints, talker, st.max_time, st.max_seq)
                               ELSE checkpoints
             /\ bf' = [bf EXCEPT !.run = TalkerDone(run, st.accepted)]
             /\ bfLast' = BackfillStepRecord(talker, "ok", fetched, st,
                                             <<st.max_time, st.max_seq>>)
             /\ bfLog' = Append(bfLog, [talker |-> talker, outcome |-> "ok",
                                        accepted |-> st.accepted])
     /\ UNCHANGED <<targets, runtime, notes, whLast, whAccepted, mgmtVars, advVars, threadVars, policyVars, healthVars, otherVars>>

\* _chatlog_backfill_loop, lines 728-734: backfill_consecutive_error_runs
\* after a cycle that returned this report.
NextErrorStreak_NeverReset(streak, report) ==
  IF report.errors > 0 THEN streak + 1 ELSE streak

NextErrorStreak(streak, report) ==
  IF report.errors > 0 THEN streak + 1 ELSE 0

\* _chatlog_backfill_loop, lines 724-752: the report is in; update
\* CHATLOG_RUNTIME, persist the note of a cycle that accepted something,
\* sleep. A create_bucket_note that raises ends the task.
BackfillCycleEnd(note_ok) ==
  LET report == ReportOf(bf.run)
      note == [source |-> "chatlog_backfill", talker |-> "batch_backfill", mode |-> "backfill",
               bucket |-> NoteBucket(targets, "batch_backfill", "backfill"),
               accepted_count |-> 1]
  IN /\ bf.pc = "running"
     /\ ~bf.cancelled
     /\ bf.run.idx > Len(bf.run.talkers)
     /\ note_ok \/ report.accepted > 0
     /\ runtime' = [runtime EXCEPT
                      !.last_backfill_report = <<report>>,
                      !.backfill_errors_total = @ + report.errors,
                      !.backfill_consecutive_error_runs = NextErrorStreak(@, report)]
     /\ notes' = IF report.accepted > 0 /\ note_ok THEN Append(notes, note) ELSE notes
     /\ bf' = [bf EXCEPT !.pc = IF report.accepted > 0 /\ ~note_ok THEN "crashed" ELSE "sleeping"]
     /\ UNCHANGED <<storeVars, targets, whLast, whAccepted, bfLast, bfLog, mgmtVars,
                    advVars, threadVars, policyVars, healthVars, otherVars>>

\* asyncio.sleep returns (lines 704 and 752): the next cycle.
BackfillWake ==
  /\ bf.pc = "sleeping"
  /\ bf' = [bf EXCEPT !.pc = "start"]
  /\ UNCHANGED <<storeVars, targets, runtime, notes, whLast, whAccepted, bfLast, bfLog,
                 mgmtVars, advVars, threadVars, policyVars, healthVars, otherVars>>

(***************************************************************************)
(* The specifications of the application. The policy document is a file    *)
(* that outlives the process: each starts from one of the documents        *)
(* InitDocs, as earlier upserts would have saved them.                     *)
(*   SpecBackfill  the poller alone;                                       *)
(*   Spec          the poller and the webhook endpoint on the same store.  *)
(***************************************************************************)

InitDocs ==
  { UpsertTarget(NoDoc, "wxid_a", [enabled |-> TRUE]),
    UpsertTarget(UpsertTarget(NoDoc, "wxid_a", [enabled |-> TRUE]), "room@chatroom",
                 [capture_policy |-> "hybrid", important_people |-> <<"VIP">>]),
    UpsertTarget(UpsertTarget(NoDoc, "wxid_a", [enabled |-> FALSE]), "room@chatroom",
                 [group_type |-> "notification"]) }

Init ==
  /\ InitStore /\ InitAdvHarness /\ InitApp
  /\ thread = [th \in Threads |-> Idle]
  /\ markLog = [k \in {} |-> NoCalls]
  /\ storeOps = 0
  /\ targets \in InitDocs

\* The requests and fetches served so far.
Events == whLast.n + bfLast.n

\* A webhook request. The handler returns 403 before it reads the messages:
\* the requests with a wrong token carry one message.
WebhookRequest(batch, limit) ==
  \E t \in Talkers, ms \in Batches(batch), token_ok \in BOOLEAN, note_ok \in BOOLEAN :
    /\ Events < limit
    /\ ~token_ok => (Len(ms) = 1 /\ note_ok)
    /\ Webhook(t, ms, token_ok, note_ok)

\* One talker of run_backfill_once, with what the fetch returns and the
\* store call that fails, if any.
BackfillIteration(batch, limit) ==
  \E fetch_ok \in BOOLEAN, ms \in Batches(batch), fault \in 0..(batch + 2) :
    /\ Events < limit
    /\ BackfillTalker(fetch_ok, ms, fault)

MaxFetched == 2
MaxFetches == 2

NextBackfill ==
  \/ BackfillCycleStart
  \/ BackfillIteration(MaxFetched, MaxFetches)
  \/ \E note_ok \in BOOLEAN : BackfillCycleEnd(note_ok)
  \/ BackfillWake

SpecBackfill == Init /\ [][NextBackfill]_vars

MaxBatch == 1
MaxEvents == 2

Next ==
  \/ WebhookRequest(MaxBatch, MaxEvents)
  \/ BackfillCycleStart
  \/ BackfillIteration(MaxBatch, MaxEvents)
  \/ \E note_ok \in BOOLEAN : BackfillCycleEnd(note_ok)
  \/ BackfillWake

Spec == Init /\ [][Next]_vars

(***************************************************************************)
(* SpecWebhook: webhook requests alone, at most MaxWebhooks of them        *)
(* carrying MaxDelivered messages in all.                                  *)
(***************************************************************************)
MaxWebhooks == 2
MaxDelivered == 3

NextWebhook ==
  \E t \in Talkers, ms \in Batches(MaxDelivered - whLast.delivered),
     token_ok \in BOOLEAN, note_ok \in BOOLEAN :
    /\ whLast.n < MaxWebhooks
    /\ ~token_ok => (Len(ms) = 1 /\ note_ok)
    /\ Webhook(t, ms, token_ok, note_ok)

SpecWebhook == Init /\ [][NextWebhook]_vars

(***************************************************************************)
(* SpecShutdown: the poller and on_shutdown (app.py lines 657-666).        *)
(* Task.cancel() takes effect where the coroutine is suspended: in         *)
(* asyncio.sleep, or in `await asyncio.to_thread(run_backfill_once, ...)`. *)
(* In the second case CancelledError is raised in the coroutine, which     *)
(* ends; the function that runs in the worker thread is not interrupted    *)
(* and goes on through its talkers.                                        *)
(***************************************************************************)
\* CHATLOG_BACKFILL_TASK.cancel()
Cancel ==
  /\ bf.pc \in {"sleeping", "running"}
  /\ ~bf.cancelled
  /\ bf' = [bf EXCEPT !.cancelled = TRUE,
                      !.pc = IF bf.pc = "sleeping" THEN "cancelled" ELSE "running"]
  /\ UNCHANGED <<storeVars, targets, runtime, notes, whLast, whAccepted, bfLast, bfLog,
                 mgmtVars, advVars, threadVars, policyVars, healthVars, otherVars>>

\* run_backfill_once returns in the worker thread after the task was
\* cancelled: nobody awaits the report.
BackfillThreadEnd ==
  /\ bf.pc = "running"
  /\ bf.cancelled
  /\ bf.run.idx > Len(bf.run.talkers)
  /\ bf' = [bf EXCEPT !.pc = "cancelled"]
  /\ UNCHANGED <<storeVars, targets, runtime, notes, whLast, whAccepted, bfLast, bfLog,
                 mgmtVars, advVars, threadVars, policyVars, healthVars, otherVars>>

NextShutdown ==
  \/ BackfillCycleStart
  \/ BackfillIteration(MaxFetched, MaxFetches)
  \/ \E note_ok \in BOOLEAN : BackfillCycleEnd(note_ok)
  \/ BackfillWake
  \/ Cancel
  \/ BackfillThreadEnd

SpecShutdown == Init /\ [][NextShutdown]_vars

(***************************************************************************)
(* SpecPoller: the poller task for as long as the process lives. After     *)
(* MaxFetches fetches that return messages or raise, every later fetch     *)
(* returns an empty list, so the cycles go on without end on a finite      *)
(* state space. The event loop resumes the task when its sleep is over and *)
(* when the worker thread is done, and the worker thread runs: weak        *)
(* fairness of the poller's steps.                                         *)
(***************************************************************************)
\* run_backfill_once, lines 78-119, for a talker whose fetch returns [].
BackfillTalkerIdle ==
  LET run == bf.run
  IN /\ bf.pc = "running"
     /\ run.idx <= Len(run.talkers)
     /\ bf' = [bf EXCEPT !.run = TalkerDone(run, 0)]
     /\ bfLog' = Append(bfLog, [talker |-> run.talkers[run.idx], outcome |-> "ok", accepted |-> 0])
     /\ UNCHANGED <<storeVars, targets, runtime, notes, whLast, whAccepted, bfLast, mgmtVars,
                    advVars, threadVars, policyVars, healthVars, otherVars>>

NextPoller ==
  \/ BackfillCycleStart
  \/ BackfillIteration(MaxBatch, MaxFetches)
  \/ (Events >= MaxFetches /\ BackfillTalkerIdle)
  \/ \E note_ok \in BOOLEAN : BackfillCycleEnd(note_ok)
  \/ BackfillWake

SpecPoller == Init /\ [][NextPoller]_vars /\ WF_vars(NextPoller)

(***************************************************************************)
(* SpecPolicy: _should_accept_group_message called with any config and any *)
(* message, one call after the other.                                      *)
(***************************************************************************)
MaxPolicyCalls == 2

\* The important_people lists of the configs.
PeopleLists ==
  { <<>>, <<"VIP">>, <<"vip">>, <<"VI">>, <<" VIP ">>, <<" ", "">>, <<"bob", "VIP">>, <<"P|w">> }

\* The configs: None (<<>>), and every valid group_type and capture_policy
\* with each of the lists.
PolicyTargets ==
  { <<>> } \cup
  { <<[DefaultTarget("room@chatroom") EXCEPT !.group_type = gt, !.capture_policy = cp,
                                             !.important_people = people]>> :
      gt \in VALID_GROUP_TYPES, cp \in VALID_CAPTURE_POLICIES, people \in PeopleLists }

PolicyMessages ==
  { [seq |-> 1, time |-> 2, sender |-> who[2], senderName |-> who[1], content |-> content] :
      who \in {<<"bob", "wxid_b">>, <<"VIP", "wxid_v">>},
      content \in {"hello", "deadline soon", "DEADLINE soon"} }

Evaluate(target, message) ==
  /\ policyCall.n < MaxPolicyCalls
  /\ policyCall' = [n |-> policyCall.n + 1, target |-> target, message |-> <<message>>,
                    result |-> ShouldAcceptGroupMessage(target, message)]
  /\ UNCHANGED <<storeVars, advVars, threadVars, appVars, healthVars, otherVars>>

NextPolicy == \E target \in PolicyTargets, message \in PolicyMessages : Evaluate(target, message)

InitPolicy == InitStore /\ InitAdvHarness /\ InitThreads /\ InitApp /\ targets = NoDoc

SpecPolicy == InitPolicy /\ [][NextPolicy]_vars

(***************************************************************************)
(* SpecTargets: the target management requests alone, at most MaxMgmtOps   *)
(* of them, on a document that starts empty. The REST endpoint hands       *)
(* upsert_target every field (the request model fills in what the body     *)
(* leaves out and refuses an importance outside 1..5); the bridge command  *)
(* hands it only the fields of the command, any integer as importance.     *)
(***************************************************************************)
MaxMgmtOps == 3

\* Values of the enum fields: one valid value that is no default, and one
\* that is unknown.
GroupTypeValues == {"learning", "family"}
BucketValues == {"10_Growth", "99_Misc"}
NoiseValues == {"high", "loud"}
PolicyValues == {"hybrid", "everything"}

\* Bodies of POST /api/integrations/chatlog/targets/upsert.
TargetPayloads ==
  {[enabled |-> TRUE, group_type |-> g, importance |-> 5, default_memory_bucket |-> b,
    focus_topics |-> <<>>, important_people |-> <<>>, noise_tolerance |-> n,
    capture_policy |-> c] :
     g \in GroupTypeValues, b \in BucketValues, n \in NoiseValues, c \in PolicyValues}

\* Bodies that name every field, and bodies that name one or two.
TargetBodies ==
  TargetPayloads
    \cup {[enabled |-> e] : e \in BOOLEAN}
    \cup {[group_type |-> "learning", importance |-> 5, default_memory_bucket |-> "10_Growth"],
          [capture_policy |-> "hybrid", important_people |-> <<"VIP">>],
          [noise_tolerance |-> "high"]}

\* The updates of a `/memory group update` command that names one field.
GroupUpdates ==
  {[group_type |-> g] : g \in GroupTypeValues}
    \cup {[default_memory_bucket |-> b] : b \in BucketValues}
    \cup {[noise_tolerance |-> n] : n \in NoiseValues}
    \cup {[capture_policy |-> c] : c \in PolicyValues}
    \cup {[importance |-> i] : i \in {0, 9}}

NextTargets ==
  /\ mgmtOps < MaxMgmtOps
  /\ \/ \E t \in Talkers, body \in TargetBodies : TargetUpsert(t, body)
     \/ \E t \in Talkers, updates \in GroupUpdates : GroupUpdate(t, updates)
     \/ \E t \in Talkers : TargetRemove(t)

InitTargets == InitStore /\ InitAdvHarness /\ InitThreads /\ InitApp /\ targets = NoDoc

SpecTargets == InitTargets /\ [][NextTargets]_vars

(***************************************************************************)
(* SpecRouting: webhook requests, as in SpecWebhook, on policy documents   *)
(* that give the group talker each group_type with a bucket of its own (or *)
(* no config) and a capture_policy that lets key events through, and the   *)
(* contact a config with a group_type and a bucket that are not those of a *)
(* contact.                                                                *)
(***************************************************************************)
RoutingDocs ==
  {UpsertTarget(NoDoc, "wxid_a", [group_type |-> "learning", default_memory_bucket |-> "30_Wealth"])}
    \cup {UpsertTarget(UpsertTarget(NoDoc, "wxid_a", [enabled |-> TRUE]), "room@chatroom",
                       [group_type |-> g, default_memory_bucket |-> "30_Wealth",
                        capture_policy |-> "key_events"]) : g \in VALID_GROUP_TYPES}

InitRouting ==
  /\ InitStore /\ InitAdvHarness /\ InitApp
  /\ thread = [th \in Threads |-> Idle]
  /\ markLog = [k \in {} |-> NoCalls]
  /\ storeOps = 0
  /\ targets \in RoutingDocs

SpecRouting == InitRouting /\ [][NextWebhook]_vars

(***************************************************************************)
(* SpecHealth: _build_chatlog_health (app.py lines 319-346), called by     *)
(* GET /healthz, on any counters the ingest paths can have accumulated and *)
(* under any thresholds load_runtime_config can produce. A ratio threshold *)
(* is the pair <<numerator, denominator>> of the decimal it was parsed     *)
(* from. deduped_total / total is a float division of two integers and the *)
(* threshold the float nearest to its decimal; both are correctly rounded, *)
(* so for counters far below 2^53 the float comparison decides as the      *)
(* comparison of the two fractions does, which is how it is computed here. *)
(***************************************************************************)
MaxTraffic == 3
MaxStreak == 2
MaxThreshold == 2
MaxHealthCalls == 2

\* _parse_ratio accepts 0 <= value <= 1.
RatioThresholds == {<<0, 1>>, <<1, 2>>, <<4, 5>>, <<1, 1>>}

\* Lines 324 and 330-333: total >= min_total and dedup_ratio >= threshold,
\* with dedup_ratio = deduped_total / total, or 0.0 when total is 0.
WebhookDedupAlert_NoMinimum(accepted_total, deduped_total, min_total, ratio) ==
  LET total == accepted_total + deduped_total
  IN IF total > 0 THEN deduped_total * ratio[2] >= ratio[1] * total
     ELSE 0 >= ratio[1]

WebhookDedupAlert(accepted_total, deduped_total, min_total, ratio) ==
  LET total == accepted_total + deduped_total
  IN /\ total >= min_total
     /\ IF total > 0 THEN deduped_total * ratio[2] >= ratio[1] * total
        ELSE 0 >= ratio[1]

\* Lines 327-329.
BackfillErrorAlert(streak, threshold) == streak >= threshold

\* The status _read_bridge_health returns (app.py lines 930-959): unknown
\* without a readable heartbeat, else ok or stale by its age.
BridgeStatuses == {"unknown", "ok", "stale"}

\* healthz, lines 971-978: the overall status. last_report is <<>> for None.
OverallStatus_AlertsOnly(bridge_status, backfill_error_alert, webhook_dedup_alert, last_report) ==
  IF backfill_error_alert \/ webhook_dedup_alert THEN "degraded"
  ELSE IF bridge_status = "stale" THEN "degraded" ELSE "ok"

OverallStatus(bridge_status, backfill_error_alert, webhook_dedup_alert, last_report) ==
  IF last_report # <<>> /\ last_report[1].errors > 0 THEN "degraded"
  ELSE IF backfill_error_alert \/ webhook_dedup_alert THEN "degraded"
  ELSE IF bridge_status = "stale" THEN "degraded" ELSE "ok"

\* GET /healthz: the signals of _build_chatlog_health under these thresholds
\* and the overall status, with the bridge_status heartbeat as it is read.
Healthz(threshold, min_total, ratio, bridge_status) ==
  LET backfill_error_alert ==
        BackfillErrorAlert(runtime.backfill_consecutive_error_runs, threshold)
      webhook_dedup_alert ==
        WebhookDedupAlert(runtime.webhook_accepted_total,
                          runtime.webhook_deduped_total, min_total, ratio)
  IN /\ health.n < MaxHealthCalls
     /\ health' = [n |-> health.n + 1, threshold |-> threshold, min_total |-> min_total,
                   ratio |-> ratio,
                   backfill_error_alert |-> backfill_error_alert,
                   webhook_dedup_alert |-> webhook_dedup_alert,
                   bridge |-> bridge_status,
                   status |-> OverallStatus(bridge_status, backfill_error_alert, webhook_dedup_alert,
                                            runtime.last_backfill_report)]
     /\ UNCHANGED <<storeVars, advVars, threadVars, appVars, policyVars, otherVars>>

NextHealth ==
  \E threshold \in 1..MaxThreshold, min_total \in 1..MaxThreshold, ratio \in RatioThresholds,
     bridge_status \in BridgeStatuses :
    Healthz(threshold, min_total, ratio, bridge_status)

\* The counters after some traffic and some cycles: a streak of s cycles with
\* errors has counted at least s errors and its last report has one; without
\* a streak no cycle has run yet, or the last one had no error.
InitHealth ==
  /\ InitStore /\ InitAdvHarness /\ InitThreads /\ InitHandlers
  /\ targets = NoDoc
  /\ \E a \in 0..MaxTraffic, d \in 0..MaxTraffic, s \in 0..MaxStreak, ran \in BOOLEAN :
       runtime = [webhook_accepted_total |-> a, webhook_deduped_total |-> d,
                  last_backfill_report |->
                    IF s > 0 THEN <<[scanned |-> 1, accepted |-> 0, errors |-> 1]>>
                    ELSE IF ran THEN <<[scanned |-> 1, accepted |-> 1, errors |-> 0]>>
                    ELSE <<>>,
                  backfill_errors_total |-> s,
                  backfill_consecutive_error_runs |-> s]

SpecHealth == InitHealth /\ [][NextHealth]_vars

(***************************************************************************)
(* SpecCycles: the poller while talkers are enabled, disabled and removed  *)
(* through the bridge command and the removal endpoint, at any moment of a *)
(* cycle: at most MaxCycleFetches fetches and MaxCycleMgmtOps management   *)
(* requests.                                                               *)
(***************************************************************************)
MaxCycleFetches == 3
MaxCycleMgmtOps == 2

\* `/memory group update <talker> enabled=...`
EnabledUpdates == {[enabled |-> e] : e \in BOOLEAN}

\* One talker of the cycle: the fetch raises, or returns nothing or one
\* message; load_checkpoint may raise.
CycleFetch ==
  \E fetch_ok \in BOOLEAN, ms \in {<<>>} \cup {<<m>> : m \in Messages}, fault \in 0..1 :
    /\ bfLast.n < MaxCycleFetches
    /\ BackfillTalker(fetch_ok, ms, fault)

NextCycles ==
  \/ BackfillCycleStart
  \/ CycleFetch
  \/ \E note_ok \in BOOLEAN : BackfillCycleEnd(note_ok)
  \/ BackfillWake
  \/ (mgmtOps < MaxCycleMgmtOps /\ \E t \in Talkers, u \in EnabledUpdates : GroupUpdate(t, u))
  \/ (mgmtOps < MaxCycleMgmtOps /\ \E t \in Talkers : TargetRemove(t))

SpecCycles == Init /\ [][NextCycles]_vars

(***************************************************************************)
(* SpecRetune: webhook deliveries of one message between changes of the    *)
(* talkers' policy through `/memory group update` and removals of their    *)
(* config.                                                                 *)
(***************************************************************************)
MaxRedeliveries == 2
MaxRetunes == 1

\* `/memory group update <talker> ...` naming the fields the policy reads.
RetuneUpdates ==
  { [capture_policy |-> "hybrid", important_people |-> <<"bob">>],
    [group_type |-> "info_gap", capture_policy |-> "key_events"],
    [capture_policy |-> "summary_only"] }

\* A webhook request with the right token and one message.
Delivery ==
  \E t \in Talkers, m \in Messages, note_ok \in BOOLEAN :
    /\ whLast.n < MaxRedeliveries
    /\ Webhook(t, <<m>>, TRUE, note_ok)

NextRetune ==
  \/ Delivery
  \/ (mgmtOps < MaxRetunes /\ \E t \in Talkers, u \in RetuneUpdates : GroupUpdate(t, u))
  \/ (mgmtOps < MaxRetunes /\ \E t \in Talkers : TargetRemove(t))

SpecRetune == Init /\ [][NextRetune]_vars

(***************************************************************************)
(* SpecRefetch: poller cycles whose fetches return nothing or one message  *)
(* with a sequence number, between changes of the talkers' policy through  *)
(* `/memory group update`. No call fails.                                  *)
(***************************************************************************)
MaxRefetches == 3
MaxRefetchRetunes == 1

\* The messages that carry a sequence number.
SeqMessages == {m \in Messages : ToIntOrNone(m.seq) # NoSeq}

\* One talker of the cycle: the fetch returns nothing or one message.
Refetch ==
  \E ms \in {<<>>} \cup {<<m>> : m \in SeqMessages} :
    /\ bfLast.n < MaxRefetches
    /\ BackfillTalker(TRUE, ms, 0)

NextRefetch ==
  \/ BackfillCycleStart
  \/ Refetch
  \/ BackfillCycleEnd(TRUE)
  \/ BackfillWake
  \/ (mgmtOps < MaxRefetchRetunes /\ \E t \in Talkers, u \in RetuneUpdates : GroupUpdate(t, u))

SpecRefetch == Init /\ [][NextRefetch]_vars

(***************************************************************************)
(* SpecWindow: the fetch window of run_backfill_once (chatlog_backfill.py  *)
(* lines 82-87). Instants and wall-clock readings are counted in hours     *)
(* from midnight UTC of day 0, a calendar date is its day number (the      *)
(* order of "YYYY-MM-DD" strings is the order of the days), and an ISO     *)
(* time string is its wall-clock reading with its UTC offset:              *)
(* "2026-02-19T00:00:00+08:00" with day 0 = 2026-02-18 is                  *)
(* [local |-> 24, offset |-> 8], the instant 16.                           *)
(***************************************************************************)
MaxDay == 2
MaxBootstrapDays == 2
MaxWindows == 2

\* _to_date_str: the calendar date in UTC of an instant.
ToDateStr(instant) == instant \div 24

\* checkpoint_time[:10]: the first ten characters of the stored string, the
\* calendar date of its wall-clock reading in its own offset.
DatePrefix(time) == time.local \div 24

\* datetime.fromisoformat of the string, as an instant.
InstantOf(time) == time.local - time.offset

\* Lines 83-87; checkpoint_time is <<>> when load_checkpoint gives None (or
\* an empty string), else <<the stored string>>.
FetchWindow(now, checkpoint_time, bootstrap_days) ==
  [from_date |-> IF checkpoint_time # <<>>
                 THEN DatePrefix(checkpoint_time[1])
                 ELSE ToDateStr(now - 24 * bootstrap_days),
   to_date |-> ToDateStr(now)]

\* The UTC offsets of the stored strings, and the hours of day that are read.
Offsets == {-8, 0, 8}
ClockHours == {0, 12, 23}
WallClocks == {24 * d + h : d \in 0..MaxDay, h \in ClockHours}

\* The time strings a message received by `now` can carry: any wall-clock
\* reading and offset whose instant is not after now.
StoredTimes(now) ==
  {t \in [local : WallClocks, offset : Offsets] : InstantOf(t) <= now}

\* One talker of run_backfill_once up to the fetch: the window it computes.
ComputeWindow(now, checkpoint_time, bootstrap_days) ==
  LET w == FetchWindow(now, checkpoint_time, bootstrap_days)
  IN /\ window.n < MaxWindows
     /\ window' = [n |-> window.n + 1, now |-> now, checkpoint_time |-> checkpoint_time,
                   bootstrap_days |-> bootstrap_days,
                   from_date |-> w.from_date, to_date |-> w.to_date]
     /\ UNCHANGED <<storeVars, advVars, threadVars, appVars, policyVars, healthVars, saving, bridge, agent>>

NextWindow ==
  \E now \in WallClocks, bootstrap_days \in 1..MaxBootstrapDays :
    \E checkpoint_time \in {<<>>} \cup {<<t>> : t \in StoredTimes(now)} :
      ComputeWindow(now, checkpoint_time, bootstrap_days)

InitWindow == InitStore /\ InitAdvHarness /\ InitThreads /\ InitApp /\ targets = NoDoc

SpecWindow == InitWindow /\ [][NextWindow]_vars

(***************************************************************************)
(* SpecDocRace: the policy document as a file shared by two threads. The   *)
(* management handlers run on the event-loop thread and end with _save,    *)
(* which is Path.write_text: open(path, "w") truncates the file, then the  *)
(* text is written and the file closed. should_accept_message runs on the  *)
(* worker thread of asyncio.to_thread and reads the file with _load for    *)
(* every message of a group; nothing orders the two. `targets` is the last *)
(* document that was written completely, `saving` the write in progress.   *)
(***************************************************************************)
MaxRaceWrites == 2
MaxRaceReads == 2

\* Bodies of the upsert requests sent while the worker runs.
RaceBodies ==
  { [capture_policy |-> "hybrid", important_people |-> <<"bob">>],
    [capture_policy |-> "key_events"] }

\* What _load returns on the worker thread (chatlog_targets.py lines 33-46).
\* With no write in progress it is the document. During a write the file is
\* empty or holds a prefix of the new text, json.loads raises and _load
\* returns {}; or the text is already there in full.
LoadOutcomes ==
  IF saving = <<>> THEN {targets} ELSE {NoDoc, saving[1].doc}

\* upsert_chatlog_target up to the open(path, "w") of _save: the document is
\* loaded and merged, the file is truncated.
UpsertOpen(talker, body) ==
  /\ saving = <<>>
  /\ mgmtOps < MaxRaceWrites
  /\ saving' = <<[request |-> ManagementRequest("upsert", talker, body,
                                                RequestPayload(body), FALSE),
                  doc |-> UpsertTarget(targets, talker, RequestPayload(body))]>>
  /\ UNCHANGED <<storeVars, advVars, threadVars, appVars, policyVars, healthVars, window, bridge, agent>>

\* remove_chatlog_target up to the open(path, "w") of _save; without a
\* config of the talker remove_target returns before _save.
RemoveOpen(talker) ==
  /\ saving = <<>>
  /\ mgmtOps < MaxRaceWrites
  /\ talker \in DOMAIN targets
  /\ saving' = <<[request |-> ManagementRequest("remove", talker, <<>>, <<>>, TRUE),
                  doc |-> RemoveTarget(targets, talker)]>>
  /\ UNCHANGED <<storeVars, advVars, threadVars, appVars, policyVars, healthVars, window, bridge, agent>>

\* write_text returns: the new document is in the file.
SaveClose ==
  /\ saving # <<>>
  /\ targets' = saving[1].doc
  /\ mgmtOps' = mgmtOps + 1
  /\ mgmtLast' = saving[1].request
  /\ saving' = <<>>
  /\ UNCHANGED <<storeVars, runtime, notes, bf, whLast, whAccepted, bfLast, bfLog,
                 advVars, threadVars, policyVars, healthVars, window, bridge, agent>>

\* should_accept_message on the worker thread for a message of a group
\* (app.py lines 718-722): get_target, then the evaluator.
WorkerDecide(talker, message) ==
  \E doc \in LoadOutcomes :
    /\ IsGroup(talker)
    /\ policyCall.n < MaxRaceReads
    /\ policyCall' = [n |-> policyCall.n + 1, target |-> GetTarget(doc, talker),
                      message |-> <<message>>,
                      result |-> ShouldAcceptGroupMessage(GetTarget(doc, talker), message)]
    /\ UNCHANGED <<storeVars, advVars, threadVars, appVars, healthVars, otherVars>>

NextDocRace ==
  \/ \E t \in Talkers, body \in RaceBodies : UpsertOpen(t, body)
  \/ \E t \in Talkers : RemoveOpen(t)
  \/ SaveClose
  \/ \E t \in Talkers, m \in Messages : WorkerDecide(t, m)

SpecDocRace == Init /\ [][NextDocRace]_vars

(***************************************************************************)
(* SpecBridge: the IM bridge (feishu_ws_bridge.py). _event_handler runs    *)
(* inside the event loop of the websocket client and creates one task      *)
(* _handle_text_serialized per text message (line 847); the tasks run on   *)
(* that loop and are interleaved at their awaits. An asyncio.Lock is       *)
(* [locked, waiters]: acquire takes a lock that is free and has no waiter  *)
(* without suspending, else it appends the task to waiters and suspends;   *)
(* release clears locked and wakes the first waiter, which takes the lock  *)
(* when it resumes.                                                        *)
(***************************************************************************)
MaxBridgeMessages == 3

\* The chat_ids the messages come from.
BridgeChats == {"oc_a", "oc_b"}

\* asyncio.Lock()
NewLock == [locked |-> FALSE, waiters |-> <<>>]

\* _get_chat_lock (lines 808-814): the index of the lock of the chat, the
\* next free index when the dict has none. The guard lock is never
\* contended: its body has no await.
GetChatLock_AlwaysNew(chat_locks, nlocks, chat_id) == nlocks + 1

GetChatLock(chat_locks, nlocks, chat_id) ==
  IF chat_id \in DOMAIN chat_locks THEN chat_locks[chat_id] ELSE nlocks + 1

\* _event_handler, line 847: loop.create_task(_handle_text_serialized(...)).
Receive(chat_id) ==
  /\ Len(bridge.tasks) < MaxBridgeMessages
  /\ bridge' = [bridge EXCEPT
                  !.tasks = Append(@, [chat |-> chat_id, pc |-> "scheduled", lock |-> 0])]
  /\ UNCHANGED <<storeVars, advVars, threadVars, appVars, policyVars, healthVars,
                 window, saving, agent>>

\* _handle_text_serialized, lines 817-818: the task starts, gets the lock of
\* its chat and enters `async with lock`: it takes the lock and starts
\* _handle_text_async, or suspends in acquire.
Enter(i) ==
  LET task == bridge.tasks[i]
      k == GetChatLock(bridge.chat_locks, Len(bridge.locks), task.chat)
      locks == IF k > Len(bridge.locks) THEN Append(bridge.locks, NewLock) ELSE bridge.locks
      free == ~locks[k].locked /\ locks[k].waiters = <<>>
  IN /\ task.pc = "scheduled"
     /\ bridge' = [tasks |-> [bridge.tasks EXCEPT
                                ![i] = [chat |-> task.chat,
                                        pc |-> IF free THEN "handling" ELSE "waiting",
                                        lock |-> k]],
                   locks |-> [locks EXCEPT
                                ![k] = IF free THEN [@ EXCEPT !.locked = TRUE]
                                       ELSE [@ EXCEPT !.waiters = Append(@, i)]],
                   chat_locks |-> [c \in DOMAIN bridge.chat_locks \cup {task.chat} |->
                                     IF c = task.chat THEN k ELSE bridge.chat_locks[c]]]
     /\ UNCHANGED <<storeVars, advVars, threadVars, appVars, policyVars, healthVars,
                    window, saving, agent>>

\* _handle_text_async returns and `async with lock` releases (line 819):
\* locked is cleared and the first waiter's future is resolved.
Finish(i) ==
  LET task == bridge.tasks[i]
      waiters == bridge.locks[task.lock].waiters
  IN /\ task.pc = "handling"
     /\ bridge' = [bridge EXCEPT
                     !.locks[task.lock].locked = FALSE,
                     !.tasks = [j \in DOMAIN bridge.tasks |->
                                  IF j = i THEN [bridge.tasks[j] EXCEPT !.pc = "done"]
                                  ELSE IF waiters # <<>> /\ j = Head(waiters)
                                  THEN [bridge.tasks[j] EXCEPT !.pc = "woken"]
                                  ELSE bridge.tasks[j]]]
     /\ UNCHANGED <<storeVars, advVars, threadVars, appVars, policyVars, healthVars,
                    window, saving, agent>>

\* The woken waiter resumes in acquire: it leaves waiters, sets locked and
\* starts _handle_text_async.
Resume(i) ==
  LET task == bridge.tasks[i]
  IN /\ task.pc = "woken"
     /\ bridge' = [bridge EXCEPT
                     !.locks[task.lock].locked = TRUE,
                     !.locks[task.lock].waiters = SelectSeq(@, LAMBDA j : j # i),
                     !.tasks[i].pc = "handling"]
     /\ UNCHANGED <<storeVars, advVars, threadVars, appVars, policyVars, healthVars,
                    window, saving, agent>>

NextBridge ==
  \/ \E c \in BridgeChats : Receive(c)
  \/ \E i \in DOMAIN bridge.tasks : Enter(i)
  \/ \E i \in DOMAIN bridge.tasks : Finish(i)
  \/ \E i \in DOMAIN bridge.tasks : Resume(i)

InitBridge == InitStore /\ InitAdvHarness /\ InitThreads /\ InitApp /\ targets = NoDoc

SpecBridge == InitBridge /\ [][NextBridge]_vars

(***************************************************************************)
(* SpecAgentRun: _handle_text_async of the IM bridge (feishu_ws_bridge.py  *)
(* lines 762-806), one message at a time as the chat lock admits them. The *)
(* handler is cut at its awaits of an agent run; each run ends with a      *)
(* reply, with asyncio.TimeoutError out of wait_for, or with another       *)
(* exception. _write_bridge_heartbeat is Path.write_text and raises when   *)
(* the file cannot be written: hb_ok says whether the heartbeat file is    *)
(* writable during the step. A _send_text is one attempt at the platform,  *)
(* the split into chunks left aside, and raises when api_ok is false.      *)
(***************************************************************************)
MaxHandled == 2

\* The texts of the messages: the session command, the group command, the
\* reply suggestion command and an ordinary message.
BridgeTexts == {"/clear", "/memory group list", "/reply suggest alice", "hello"}

\* How a run of the agent under asyncio.wait_for ends.
RunOutcomes == {"reply", "timeout", "error"}

\* _resolve_chat_conversation_id (lines 120-123): feishu:<chat_id>:v<generation>
ResolveChatConversationId(generation, chat_id) == <<"feishu", chat_id, generation[chat_id]>>

\* _send_text (lines 757-760) with _send_text_once (738-755): the heartbeat
\* send_start, then the request. The result is the attempts made so far and
\* the exception raised, "" for none.
SendText(sends, chat_id, text, hb_ok, api_ok) ==
  IF ~hb_ok THEN [sends |-> sends, raised |-> "OSError"]
  ELSE IF ~api_ok
  THEN [sends |-> Append(sends, [chat_id |-> chat_id, text |-> text, ok |-> FALSE]),
        raised |-> "send failed"]
  ELSE [sends |-> Append(sends, [chat_id |-> chat_id, text |-> text, ok |-> TRUE]),
        raised |-> ""]

\* The handler of `except Exception as exc` (lines 800-806): the heartbeat
\* agent_error, then the error message, whose own failure is only logged.
ErrorPath(sends, chat_id, exc, hb_ok, api_ok) ==
  IF ~hb_ok THEN sends
  ELSE SendText(sends, chat_id, [kind |-> "error", body |-> exc], hb_ok, api_ok).sends

\* The handler ends by raising exc inside the try.
Fail(a, exc, hb_ok, err_ok) ==
  [a EXCEPT !.pc = "idle", !.n = @ + 1,
            !.sends = ErrorPath(a.sends, a.chat_id, exc, hb_ok, err_ok)]

\* The handler ends with _send_text(chat_id, text) inside the try (for the
\* agent's reply after the heartbeat agent_ok, lines 797-799).
Deliver(a, text, hb_ok, api_ok, err_ok) ==
  LET s == SendText(a.sends, a.chat_id, text, hb_ok, api_ok)
  IN [a EXCEPT !.pc = "idle", !.n = @ + 1,
               !.sends = IF s.raised = "" THEN s.sends
                         ELSE ErrorPath(s.sends, a.chat_id, s.raised, hb_ok, err_ok)]

\* The handler starts run_agent(text, conversation_id, force_new_client)
\* under asyncio.wait_for and is suspended in it at pc.
StartRun(a, pc, force_new_client) ==
  [a EXCEPT !.pc = pc,
            !.calls = Append(@, [conversation_id |-> a.conversation_id,
                                 force_new_client |-> force_new_client])]

\* _handle_text_async up to its first agent run (lines 763-785). /clear
\* bumps the generation of the chat (handle_session_command, lines 170-172);
\* the reply suggestion command answers at once (usage, nothing found:
\* early) or runs the agent once (handle_reply_suggest_command, 507-511).
HandleText(chat_id, text, early, hb_ok, api_ok, err_ok) ==
  LET a == [agent EXCEPT !.chat_id = chat_id, !.text = text, !.calls = <<>>,
                         !.outcomes = <<>>, !.sends = <<>>, !.conversation_id = <<>>]
      cleared == [a EXCEPT !.generation[chat_id] = @ + 1]
      resolved == [a EXCEPT !.conversation_id =
                              ResolveChatConversationId(a.generation, chat_id)]
      command == [kind |-> "command", body |-> text]
  IN /\ agent.pc = "idle"
     /\ agent.n < MaxHandled
     /\ agent' = IF text = "/clear" THEN Deliver(cleared, command, hb_ok, api_ok, err_ok)
                 ELSE IF text = "/memory group list"
                 THEN Deliver(a, command, hb_ok, api_ok, err_ok)
                 ELSE IF text = "/reply suggest alice"
                 THEN IF early THEN Deliver(a, command, hb_ok, api_ok, err_ok)
                      ELSE StartRun(resolved, "suggest_run", FALSE)
                 ELSE StartRun(resolved, "first_run", FALSE)
     /\ UNCHANGED <<storeVars, advVars, threadVars, appVars, policyVars, healthVars,
                    window, saving, bridge>>

\* The first run of an ordinary message ends (lines 781-799): its reply is
\* sent, or after a timeout the heartbeat agent_timeout_retry is written and
\* the second run starts with force_new_client = True.
FirstRunDone(outcome, hb_ok, api_ok, err_ok) ==
  LET a == [agent EXCEPT !.outcomes = Append(@, outcome)]
  IN /\ agent.pc = "first_run"
     /\ agent' = IF outcome = "reply"
                 THEN Deliver(a, [kind |-> "reply", body |-> "first"], hb_ok, api_ok, err_ok)
                 ELSE IF outcome = "timeout"
                 THEN IF hb_ok THEN StartRun(a, "retry_run", TRUE)
                      ELSE Fail(a, "OSError", hb_ok, err_ok)
                 ELSE Fail(a, outcome, hb_ok, err_ok)
     /\ UNCHANGED <<storeVars, advVars, threadVars, appVars, policyVars, healthVars,
                    window, saving, bridge>>

\* The second run ends (lines 793-799): its reply is sent, a timeout or
\* another exception leaves the try.
RetryRunDone(outcome, hb_ok, api_ok, err_ok) ==
  LET a == [agent EXCEPT !.outcomes = Append(@, outcome)]
  IN /\ agent.pc = "retry_run"
     /\ agent' = IF outcome = "reply"
                 THEN Deliver(a, [kind |-> "reply", body |-> "retry"], hb_ok, api_ok, err_ok)
                 ELSE Fail(a, outcome, hb_ok, err_ok)
     /\ UNCHANGED <<storeVars, advVars, threadVars, appVars, policyVars, healthVars,
                    window, saving, bridge>>

\* The run of the reply suggestion command ends (lines 508-511 and 772-779):
\* the suggestion is sent; a timeout leaves handle_reply_suggest_command and
\* the try as any other exception does.
SuggestRunDone(outcome, hb_ok, api_ok, err_ok) ==
  LET a == [agent EXCEPT !.outcomes = Append(@, outcome)]
  IN /\ agent.pc = "suggest_run"
     /\ agent' = IF outcome = "reply"
                 THEN Deliver(a, [kind |-> "reply", body |-> "suggestion"],
                              hb_ok, api_ok, err_ok)
                 ELSE Fail(a, outcome, hb_ok, err_ok)
     /\ UNCHANGED <<storeVars, advVars, threadVars, appVars, policyVars, healthVars,
                    window, saving, bridge>>

NextAgentRun ==
  \/ \E chat_id \in BridgeChats, text \in BridgeTexts,
        early \in BOOLEAN, hb_ok \in BOOLEAN, api_ok \in BOOLEAN, err_ok \in BOOLEAN :
       HandleText(chat_id, text, early, hb_ok, api_ok, err_ok)
  \/ \E outcome \in RunOutcomes, hb_ok \in BOOLEAN, api_ok \in BOOLEAN, err_ok \in BOOLEAN :
       \/ FirstRunDone(outcome, hb_ok, api_ok, err_ok)
       \/ RetryRunDone(outcome, hb_ok, api_ok, err_ok)
       \/ SuggestRunDone(outcome, hb_ok, api_ok, err_ok)

InitAgentRun == InitStore /\ InitAdvHarness /\ InitThreads /\ InitApp /\ targets = NoDoc

SpecAgentRun == InitAgentRun /\ [][NextAgentRun]_vars

(***************************************************************************)
(* C1                                                                      *)
(***************************************************************************)

\* C1: of all the mark_processed calls made on one idempotency key, by the
\* event-loop thread (webhook requests) and by the backfill worker thread in
\* any interleaving, exactly one returned inserted = True.
C1_ExactlyOneInsertWins ==
  \A k \in AllKeys : markLog[k].calls >= 1 => markLog[k].wins = 1

\* Both threads have called mark_processed on the same key.
C1_Witness ==
  \E k \in AllKeys :
    /\ markLog[k].callers = Threads
    /\ markLog[k].calls >= 2
    /\ markLog[k].wins = 1

(***************************************************************************)
(* C4                                                                      *)
(***************************************************************************)

\* C4: whenever the stored checkpoint of a talker changes, under any
\* interleaving of the two threads' advance_checkpoint calls, the new
\* (time, seq) is newer than the one it replaces under the ordering rule of
\* advance_checkpoint; the stored value never moves to an older one.
C4_CheckpointNeverRegresses ==
  [][\A t \in Talkers :
       checkpoints'[t] # checkpoints[t] =>
         ShouldUpdate(checkpoints[t].time, checkpoints[t].seq,
                      checkpoints'[t].time, checkpoints'[t].seq)]_vars

(***************************************************************************)
(* C6                                                                      *)
(***************************************************************************)

\* C6: every step keeps every row of processed_messages as it is (no row is
\* deleted, and none changes its talker or message_time), and the table never
\* holds two rows with one idempotency key.
C6_ProcessedIsAppendOnly ==
  [][/\ \A r \in processed : r \in processed'
     /\ \A r1, r2 \in processed' :
          r1.idempotency_key = r2.idempotency_key => r1 = r2]_vars

\* A key was marked again with another talker or another message_time than
\* its row holds.
C6_Witness ==
  \E r \in processed :
    /\ markLog[r.idempotency_key].calls >= 2
    /\ \/ markLog[r.idempotency_key].talker # r.talker
       \/ markLog[r.idempotency_key].time # r.message_time


(***************************************************************************)
(* C5                                                                      *)
(***************************************************************************)

\* The stored checkpoint of a talker as the pair load_checkpoint returns.
Stored(talker) == LoadCheckpoint(checkpoints, talker)

\* (parsed instant, seq with None as -1) of a (time, seq) pair.
Norm(c) == <<ParseIso(c[1]), SeqOrMinusOne(c[2])>>
NormLeq(a, b) == a[1] < b[1] \/ (a[1] = b[1] /\ a[2] <= b[2])
AllParse(calls) == \A c \in calls : ParseIso(c[1]) # NoDt

\* advance_checkpoint applied to a talker once per element of calls, in order.
RECURSIVE ApplyCalls(_, _, _)
ApplyCalls(cps, talker, calls) ==
  IF calls = <<>> THEN cps
  ELSE ApplyCalls(AdvanceCheckpoint(cps, talker, Head(calls)[1], Head(calls)[2]),
                  talker, Tail(calls))

\* The orders in which the calls of a set can be made, each once.
OrdersOf(calls) ==
  {o \in [1..Cardinality(calls) -> calls] : \A c \in calls : \E i \in DOMAIN o : o[i] = c}

\* C5 as stated: after any sequence of advance_checkpoint calls to a talker,
\* whatever their arguments (absent or unparseable times included), the
\* stored (time, seq) is one of the calls' arguments, no other argument is
\* newer than it under the ordering rule of advance_checkpoint, and every
\* order of the calls leaves the same stored value.
C5_StoredIsMaximumOfAllCalls ==
  \A t \in Talkers :
    advHist[t] # {} =>
      /\ Stored(t) \in advHist[t]
      /\ \A c \in advHist[t] \ {Stored(t)} :
           ~ShouldUpdate(Stored(t)[1], Stored(t)[2], c[1], c[2])
      /\ \A o \in OrdersOf(advHist[t]) :
           LoadCheckpoint(ApplyCalls([u \in Talkers |-> NoCheckpoint], t, o), t) = Stored(t)

\* C5 amended: when every call to the talker carries a time that parses, the
\* stored checkpoint's instant and sequence number (None as -1) are the
\* maximum of the calls' (instant, seq) pairs, whatever the order of the
\* calls was.
C5_StoredIsMaximumOfParsedCalls ==
  \A t \in Talkers :
    (advHist[t] # {} /\ AllParse(advHist[t])) =>
      /\ checkpoints[t].row
      /\ \E c \in advHist[t] : Norm(c) = Norm(Stored(t))
      /\ \A c \in advHist[t] : NormLeq(Norm(c), Norm(Stored(t)))

\* Three different parsing calls were made to one talker, two of them of the
\* same instant, and the stored checkpoint is not the lexicographically
\* greatest time string among them.
C5_Witness ==
  \E t \in Talkers :
    /\ advCount = MaxCalls
    /\ Cardinality(advHist[t]) = 3
    /\ AllParse(advHist[t])
    /\ \E c, d \in advHist[t] : c # d /\ ParseIso(c[1]) = ParseIso(d[1])
    /\ \E c \in advHist[t] : StrGt(c[1], Stored(t)[1])

(***************************************************************************)
(* C2                                                                      *)
(***************************************************************************)

\* A webhook request is served in this step.
WebhookStep == whLast'.n = whLast.n + 1

\* C2: when the webhook serves a request that is identical (same talker, same
\* token, same single message carrying a sequence number) to the request
\* before it, and that one was answered 200 with accepted = 1, the answer is
\* 200 with accepted = 0 and the talker's checkpoint after the repeat is the
\* one the first delivery left.
C2_ReplayIsDeduped ==
  [][(/\ WebhookStep
      /\ whLast'.replay
      /\ Len(whLast.messages) = 1
      /\ ToIntOrNone(whLast.messages[1].seq) # NoSeq)
     => /\ whLast'.status = 200
        /\ whLast'.accepted = 0
        /\ checkpoints'[whLast.talker] = checkpoints[whLast.talker]]_vars

\* The repeat of an accepted single message with a sequence number has been
\* served, and the talker has a checkpoint.
C2_Witness ==
  /\ whLast.replay
  /\ Len(whLast.messages) = 1
  /\ ToIntOrNone(whLast.messages[1].seq) # NoSeq
  /\ checkpoints[whLast.talker].row

(***************************************************************************)
(* C3                                                                      *)
(***************************************************************************)

\* One talker of a backfill run is served in this step.
BackfillStep == bfLast'.n = bfLast.n + 1

RangeOf(s) == {s[i] : i \in DOMAIN s}

\* C3: when a backfill fetch for a talker returns a message that the webhook
\* accepted earlier for the same talker, whether it carries a sequence number
\* or not, the backfill does not count it as accepted and adds no row to
\* processed_messages for it.
C3_WebhookAcceptedIsDedupedByBackfill ==
  [][(BackfillStep /\ bfLast'.outcome = "ok")
     => \A m \in RangeOf(bfLast'.fetched) :
          <<bfLast'.talker, m>> \in whAccepted
          => /\ m \notin RangeOf(bfLast'.accepted_messages)
             /\ ~HasKey(processed' \ processed, BackfillKey(bfLast'.talker, m))]_vars

\* The part of C3 that holds: a message without a sequence number that the
\* webhook accepted is deduped by the backfill.
C3_Witness ==
  /\ bfLast.outcome = "ok"
  /\ \E m \in RangeOf(bfLast.fetched) :
       /\ <<bfLast.talker, m>> \in whAccepted
       /\ ToIntOrNone(m.seq) = NoSeq
       /\ m \notin RangeOf(bfLast.accepted_messages)

(***************************************************************************)
(* C7                                                                      *)
(***************************************************************************)

\* The messages of a fetch carry sequence numbers, all different.
DistinctSeqs(fetched) ==
  /\ fetched # <<>>
  /\ \A i \in DOMAIN fetched : ToIntOrNone(fetched[i].seq) # NoSeq
  /\ \A i, j \in DOMAIN fetched : i # j => fetched[i].seq # fetched[j].seq

\* m is the newest message of a fetch: none has a later instant, nor the same
\* instant and a greater sequence number.
IsNewest(m, fetched) ==
  \A i \in DOMAIN fetched :
    NormLeq(Norm(<<MessageTime(fetched[i]), ToIntOrNone(fetched[i].seq)>>),
            Norm(<<MessageTime(m), ToIntOrNone(m.seq)>>))

\* C7: a backfill run for a talker without a checkpoint, whose fetch returns
\* messages with distinct sequence numbers that the policy accepts and that
\* were not processed before, accepts all of them and leaves the checkpoint
\* at the (time, seq) of the newest one; the next run of the same talker with
\* the same fetch accepts none and does not change the checkpoint.
C7_TwoIdenticalBackfillRuns ==
  [][(BackfillStep /\ bfLast'.outcome = "ok" /\ DistinctSeqs(bfLast'.fetched))
     => LET t == bfLast'.talker
            fetched == bfLast'.fetched
        IN /\ (/\ ~checkpoints[t].row
               /\ \A m \in RangeOf(fetched) :
                    /\ BackfillShouldAccept(targets, t, m)
                    /\ ~HasKey(processed, BackfillKey(t, m)))
              => /\ bfLast'.accepted = Len(fetched)
                 /\ \E m \in RangeOf(fetched) :
                      /\ IsNewest(m, fetched)
                      /\ LoadCheckpoint(checkpoints', t) = <<MessageTime(m), ToIntOrNone(m.seq)>>
           /\ (/\ bfLast.outcome = "ok" /\ bfLast.talker = t /\ bfLast.fetched = fetched
               /\ bfLast.accepted = Len(fetched))
              => /\ bfLast'.accepted = 0
                 /\ checkpoints'[t] = checkpoints[t]]_vars

\* The second of two runs with the same two messages has been made.
C7_Witness ==
  /\ bfLast.n = 2
  /\ bfLast.outcome = "ok"
  /\ Len(bfLast.fetched) = 2
  /\ DistinctSeqs(bfLast.fetched)
  /\ bfLast.accepted = 0
  /\ \A m \in RangeOf(bfLast.fetched) : HasKey(processed, BackfillKey(bfLast.talker, m))

(***************************************************************************)
(* C8                                                                      *)
(***************************************************************************)

\* C8: the iteration of run_backfill_once in which the fetch raises changes
\* no checkpoint and no processed_messages row, adds one to the run's error
\* count and nothing to its accepted count.
C8_FetchErrorKeepsState ==
  [][(BackfillStep /\ bfLast'.outcome = "fetch_error")
     => /\ checkpoints' = checkpoints
        /\ processed' = processed
        /\ bf'.run.errors = bf.run.errors + 1
        /\ bf'.run.accepted_total = bf.run.accepted_total
        /\ bfLast'.accepted = 0]_vars

\* The fetch raised for a talker that had a checkpoint and processed rows.
C8_Witness ==
  /\ bfLast.outcome = "fetch_error"
  /\ checkpoints[bfLast.talker].row
  /\ \E r \in processed : r.talker = bfLast.talker
  /\ bf.run.errors = 1

(***************************************************************************)
(* C9                                                                      *)
(***************************************************************************)

RECURSIVE SumAccepted(_)
SumAccepted(log) == IF log = <<>> THEN 0 ELSE Head(log).accepted + SumAccepted(Tail(log))

\* C9: a fetch that raises moves the run to the next talker; in a run with a
\* failed fetch every other talker, before or after it, is fetched and has
\* each new message the policy accepts counted and recorded, with a
\* checkpoint stored when an accepted message carries a time; and when the
\* run is over every talker of the list has been scanned and the report
\* counts the failures and what the others accepted.
C9_FetchErrorDoesNotStopTheRun ==
  [][/\ (BackfillStep /\ bfLast'.outcome = "fetch_error")
        => /\ bf'.pc = "running"
           /\ bf'.run.idx = bf.run.idx + 1
           /\ bf'.run.talkers = bf.run.talkers
     /\ (BackfillStep /\ bfLast'.outcome = "ok")
        => LET t == bfLast'.talker
           IN /\ \A m \in RangeOf(bfLast'.fetched) :
                   (BackfillShouldAccept(targets, t, m) /\ ~HasKey(processed, BackfillKey(t, m)))
                   => /\ m \in RangeOf(bfLast'.accepted_messages)
                      /\ HasKey(processed', BackfillKey(t, m))
              /\ bf'.run.accepted_total = bf.run.accepted_total + bfLast'.accepted
              /\ (\E m \in RangeOf(bfLast'.accepted_messages) : ParseIso(MessageTime(m)) # NoDt)
                 => checkpoints'[t].row
     /\ (bf'.pc = "running" /\ bf'.run.idx > Len(bf'.run.talkers))
        => /\ Len(bfLog') = Len(bf'.run.talkers)
           /\ \A i \in DOMAIN bfLog' : bfLog'[i].talker = bf'.run.talkers[i]
           /\ ReportOf(bf'.run) = [scanned |-> Len(bf'.run.talkers),
                                   accepted |-> SumAccepted(bfLog'),
                                   errors |-> Cardinality({i \in DOMAIN bfLog' :
                                                 bfLog'[i].outcome = "fetch_error"})]]_vars

\* A run of two talkers is over: the fetch of the first raised, the second
\* had a message accepted and has a checkpoint.
C9_Witness ==
  /\ bf.pc = "running"
  /\ bf.run.idx > Len(bf.run.talkers)
  /\ Len(bfLog) = 2
  /\ bfLog[1].outcome = "fetch_error"
  /\ bfLog[2].outcome = "ok"
  /\ bfLog[2].accepted > 0
  /\ checkpoints[bfLog[2].talker].row
  /\ ReportOf(bf.run).errors = 1

(***************************************************************************)
(* C10                                                                     *)
(***************************************************************************)

\* C10: when a store call of a talker's iteration raises (load_checkpoint,
\* mark_processed or advance_checkpoint), the run counts one error, goes on
\* with the next talker and is still on its way to its report.
C10_StoreErrorIsCountedAndSkipped ==
  [][(BackfillStep /\ bfLast'.outcome = "store_error")
     => /\ bf'.pc = "running"
        /\ bf'.run.errors = bf.run.errors + 1
        /\ bf'.run.idx = bf.run.idx + 1]_vars

(***************************************************************************)
(* C11                                                                     *)
(***************************************************************************)

\* C11: the poller task, never cancelled, has no terminal state: from the
\* start of a cycle and from every point of a running cycle it reaches its
\* sleep, and from its sleep it starts another cycle, whatever happened in
\* the cycle (no enabled talker, a fetch that raised, a store call that
\* raised, a note that could not be persisted).
C11_EveryCycleIsFollowedByAnother ==
  /\ [](bf.pc # "sleeping" => <>(bf.pc = "sleeping"))
  /\ [](bf.pc = "sleeping" => <>(bf.pc = "start"))

\* The part of C11 that holds: a cycle in which a fetch raised has been
\* reported and the task sleeps.
C11_Witness ==
  /\ bf.pc = "sleeping"
  /\ runtime.last_backfill_report # <<>>
  /\ runtime.last_backfill_report[1].errors > 0
  /\ runtime.backfill_consecutive_error_runs > 0

(***************************************************************************)
(* C12                                                                     *)
(***************************************************************************)

\* C12: once the poller task has been cancelled, the pull path inserts no
\* processed_messages row and writes no checkpoint, no new cycle starts, and
\* every row and checkpoint committed before stays as it was.
C12_NothingIsWrittenAfterCancel ==
  [][bf.cancelled
     => /\ processed' = processed
        /\ checkpoints' = checkpoints
        /\ bf'.pc \notin {"start", "sleeping"}
        /\ bf'.cancelled]_vars

\* The task was cancelled in the middle of a cycle of two talkers, after the
\* first talker's messages were committed.
C12_Witness ==
  /\ bf.cancelled
  /\ bf.pc = "running"
  /\ Len(bf.run.talkers) = 2
  /\ bf.run.idx = 2
  /\ bfLast.accepted > 0
  /\ checkpoints[bfLast.talker].row

(***************************************************************************)
(* C13                                                                     *)
(***************************************************************************)

\* The content holds one of the keywords, whatever the case of its letters.
KeywordMatch(message) ==
  \E k \in Keywords : Contains(Lower(TextOf(message.content)), k)

\* The sender's name or the sender's id contains one of the (stripped,
\* non-blank) entries of important_people.
SenderMatch(cfg, message) ==
  \E i \in DOMAIN cfg.important_people :
    LET p == Strip(TextOf(cfg.important_people[i]))
    IN /\ p # <<>>
       /\ \/ Contains(TextOf(message.senderName), p)
          \/ Contains(TextOf(message.sender), p)

\* The result C13 states for a config and a message.
StatedDecision(target, message) ==
  IF target = <<>> THEN TRUE
  ELSE IF target[1].group_type = "notification" THEN KeywordMatch(message)
  ELSE IF target[1].capture_policy = "summary_only" THEN FALSE
  ELSE IF target[1].capture_policy = "key_events" THEN KeywordMatch(message)
  ELSE SenderMatch(target[1], message) \/ KeywordMatch(message)

\* C13: every call of the acceptance evaluator returns the stated decision
\* for its (config, message), returns what the call before it returned when
\* the arguments are the same, and changes nothing of the store, the policy
\* document, the counters or the notes.
C13_EvaluatorDecisionTable ==
  [][policyCall'.n = policyCall.n + 1
     => /\ policyCall'.result = StatedDecision(policyCall'.target, policyCall'.message[1])
        /\ (policyCall.n > 0 /\ policyCall.target = policyCall'.target
            /\ policyCall.message = policyCall'.message)
           => policyCall'.result = policyCall.result
        /\ UNCHANGED <<processed, checkpoints, targets, runtime, notes>>]_vars

\* The evaluator was called for a hybrid config on a message without a
\* keyword whose sender name holds an entry of important_people, and
\* accepted it.
C13_Witness ==
  /\ policyCall.n > 0
  /\ policyCall.target # <<>>
  /\ policyCall.target[1].group_type # "notification"
  /\ policyCall.target[1].capture_policy = "hybrid"
  /\ ~KeywordMatch(policyCall.message[1])
  /\ SenderMatch(policyCall.target[1], policyCall.message[1])
  /\ policyCall.result

(***************************************************************************)
(* C14                                                                     *)
(***************************************************************************)

\* The store holds no record of message m for talker t, under the key of
\* either path.
Unseen(t, m) ==
  ~\E r \in processed :
      /\ r.talker = t
      /\ r.idempotency_key \in {WebhookKey(t, m), BackfillKey(t, m)}

\* The webhook handler, given m alone for talker t now, counts it accepted.
WebhookCounts(t, m) ==
  WebhookLoop(WebhookLoopStart(processed), t, GetTarget(targets, t), <<m>>).accepted = 1

\* run_backfill_once, fetching m alone for talker t now, counts it accepted.
BackfillCounts(t, m) ==
  BackfillLoop(BackfillLoopStart(processed), targets, t, <<m>>, 0).accepted = 1

\* C14: in every state, for every talker both paths serve (it is enabled)
\* and every message the store has no record of for that talker, the webhook
\* counts the message as accepted exactly when the backfill does.
C14_PushAndPullDecideAlike ==
  \A t \in RangeOf(EnabledTalkers(targets)), m \in Messages :
    Unseen(t, m) => (WebhookCounts(t, m) <=> BackfillCounts(t, m))

\* The part of C14 that holds: for a group talker with a hybrid config both
\* paths reject an unseen message of no important sender and without a
\* keyword, and both accept an unseen one with a keyword.
C14_Witness ==
  /\ processed # {}
  /\ \E t \in RangeOf(EnabledTalkers(targets)) :
       /\ IsGroup(t)
       /\ \E m \in Messages : Unseen(t, m) /\ ~WebhookCounts(t, m) /\ ~BackfillCounts(t, m)
       /\ \E m \in Messages : Unseen(t, m) /\ WebhookCounts(t, m) /\ BackfillCounts(t, m)

(***************************************************************************)
(* C15                                                                     *)
(***************************************************************************)

\* The step is a webhook request that passed validation and the token check
\* for a talker whose stored config has enabled = false.
DisabledRequest ==
  /\ WebhookStep
  /\ whLast'.token_ok
  /\ whLast'.messages # <<>>
  /\ whLast'.talker \in DOMAIN targets
  /\ ~targets[whLast'.talker].enabled

\* C15: a webhook request for a talker whose config has enabled = false is
\* answered 200 with accepted = 0 and the mode of the talker, and changes
\* neither the processed records, the checkpoints, the notes nor the health
\* counters.
C15_DisabledTalkerIsANoOp ==
  [][DisabledRequest =>
       /\ whLast'.status = 200
       /\ whLast'.accepted = 0
       /\ whLast'.mode = ModeOf(whLast'.talker)
       /\ UNCHANGED <<processed, checkpoints, notes, runtime>>]_vars

\* A request for the disabled talker was answered while the store already
\* held records, a checkpoint and a note of another talker.
C15_Witness ==
  /\ whLast.n > 0
  /\ whLast.token_ok
  /\ whLast.talker \in DOMAIN targets
  /\ ~targets[whLast.talker].enabled
  /\ whLast.status = 200
  /\ processed # {}
  /\ \E t \in DOMAIN checkpoints : checkpoints[t].row
  /\ notes # <<>>
  /\ runtime.webhook_accepted_total > 0

(***************************************************************************)
(* C16                                                                     *)
(***************************************************************************)

\* The step is a webhook request with a wrong or missing token, or with an
\* empty message list.
InvalidRequest ==
  /\ WebhookStep
  /\ (~whLast'.token_ok \/ whLast'.messages = <<>>)

\* C16: a webhook request with a bad token is answered 403, one with an empty
\* message list 422, and either leaves the processed records, the
\* checkpoints, the notes and the health counters as they were.
C16_RejectedRequestChangesNothing ==
  [][InvalidRequest =>
       /\ whLast'.status = (IF whLast'.messages = <<>> THEN 422 ELSE 403)
       /\ whLast'.accepted = 0
       /\ UNCHANGED <<processed, checkpoints, notes, runtime>>]_vars

\* A request with a bad token that carries a message the store has never
\* seen was refused.
C16_Witness ==
  /\ whLast.n > 0
  /\ ~whLast.token_ok
  /\ whLast.status = 403
  /\ Len(whLast.messages) = 1
  /\ ~HasKey(processed, WebhookKey(whLast.talker, whLast.messages[1]))
  /\ GetTarget(targets, whLast.talker) # <<>>
  /\ GetTarget(targets, whLast.talker)[1].enabled

(***************************************************************************)
(* C17                                                                     *)
(***************************************************************************)

\* (time, seq) of a message as the ingest loops read them.
TimeSeqOf(m) == <<MessageTime(m), ToIntOrNone(m.seq)>>

\* c is the maximum of the messages under the ordering of advance_checkpoint:
\* it is the (instant, seq) of one of them and none is greater.
IsMaxOf(c, msgs) ==
  /\ \E i \in DOMAIN msgs : Norm(TimeSeqOf(msgs[i])) = Norm(c)
  /\ \A i \in DOMAIN msgs : NormLeq(Norm(TimeSeqOf(msgs[i])), Norm(c))

\* Every message of the list carries a time that parses.
TimesParse(msgs) == \A i \in DOMAIN msgs : ParseIso(MessageTime(msgs[i])) # NoDt

\* What the webhook handler's loop computes for the request of this step.
WebhookLoopOfStep ==
  WebhookLoop(WebhookLoopStart(processed), whLast'.talker,
              GetTarget(targets, whLast'.talker), whLast'.messages)

\* C17: when a backfill talker step, or a webhook request, accepts messages
\* whose times all parse, the (time, seq) it hands to advance_checkpoint is
\* the maximum of the accepted messages by parsed instant, then by seq with
\* an absent seq as -1, whatever the order of the messages in the batch.
C17_BatchMaximumFollowsCheckpointOrder ==
  [][/\ (BackfillStep /\ bfLast'.outcome = "ok" /\ bfLast'.accepted > 0
           /\ TimesParse(bfLast'.accepted_messages))
        => IsMaxOf(bfLast'.candidate, bfLast'.accepted_messages)
     /\ (WebhookStep /\ whLast'.status = 200 /\ whLast'.accepted > 0
           /\ TimesParse(WebhookLoopOfStep.accepted_messages))
        => IsMaxOf(<<WebhookLoopOfStep.max_time, WebhookLoopOfStep.max_seq>>,
                   WebhookLoopOfStep.accepted_messages)]_vars

\* A backfill step accepted two messages with different instants.
C17_Witness ==
  /\ bfLast.outcome = "ok"
  /\ bfLast.accepted = 2
  /\ TimesParse(bfLast.accepted_messages)
  /\ ParseIso(MessageTime(bfLast.accepted_messages[1]))
       # ParseIso(MessageTime(bfLast.accepted_messages[2]))

(***************************************************************************)
(* C18                                                                     *)
(***************************************************************************)

\* The step is a webhook request that reached the handler's loop.
WebhookIngestStep ==
  /\ WebhookStep
  /\ whLast'.status \notin {403, 422}
  /\ ~TargetDisabled(GetTarget(targets, whLast'.talker))

\* The step is the end of a backfill cycle: the report is in.
BackfillCycleEndStep ==
  /\ bf.pc = "running"
  /\ bf'.pc \in {"sleeping", "crashed"}
  /\ bfLast' = bfLast

\* Exactly one note is appended by the step, from this source, counting n.
OneNote(source, n) ==
  /\ Len(notes') = Len(notes) + 1
  /\ SubSeq(notes', 1, Len(notes)) = notes
  /\ notes'[Len(notes')].source = source
  /\ notes'[Len(notes')].accepted_count = n

\* What C18 says of one step.
CheckpointAndNoteFollowAccepted ==
  /\ WebhookIngestStep =>
       IF WebhookLoopOfStep.accepted = 0
       THEN UNCHANGED <<checkpoints, notes>>
       ELSE /\ checkpoints'[whLast'.talker].row
            /\ checkpoints' =
                 AdvanceCheckpoint(checkpoints, whLast'.talker,
                                   WebhookLoopOfStep.max_time, WebhookLoopOfStep.max_seq)
            /\ OneNote("chatlog_webhook", WebhookLoopOfStep.accepted)
  /\ BackfillStep =>
       /\ notes' = notes
       /\ IF bfLast'.accepted = 0
          THEN checkpoints' = checkpoints
          ELSE /\ checkpoints'[bfLast'.talker].row
               /\ checkpoints' =
                    AdvanceCheckpoint(checkpoints, bfLast'.talker,
                                      bfLast'.candidate[1], bfLast'.candidate[2])
  /\ BackfillCycleEndStep =>
       /\ checkpoints' = checkpoints
       /\ IF ReportOf(bf.run).accepted = 0
          THEN notes' = notes
          ELSE OneNote("chatlog_backfill", 1)

\* C18: a webhook request that accepts no message leaves the checkpoints and
\* the notes as they were, and one that accepts at least one message leaves
\* a checkpoint for its talker and appends exactly one note; a backfill
\* talker step writes the talker's checkpoint exactly when it accepted a
\* message and never a note; the end of a backfill cycle appends one
\* aggregate note exactly when the cycle accepted at least one message.
C18_CheckpointAndNoteIffAccepted == [][CheckpointAndNoteFollowAccepted]_vars

\* A webhook request accepted two messages of a talker without a checkpoint:
\* the checkpoint exists now and the last note counts the two.
C18_Witness ==
  /\ whLast.status = 200
  /\ whLast.accepted = 2
  /\ checkpoints[whLast.talker].row
  /\ Len(notes) = 1
  /\ notes[1].accepted_count = 2

(***************************************************************************)
(* C19                                                                     *)
(***************************************************************************)

\* The positions of a request's messages that are the first occurrence of
\* their key, in the store and in the request, and that the policy of the
\* talker does not reject.
FirstAndNotRejected(rows, cfgs, talker, messages) ==
  {i \in DOMAIN messages :
     /\ ~HasKey(rows, WebhookKey(talker, messages[i]))
     /\ \A j \in 1..(i - 1) :
          WebhookKey(talker, messages[j]) # WebhookKey(talker, messages[i])
     /\ IsGroup(talker) => ShouldAcceptGroupMessage(GetTarget(cfgs, talker), messages[i])}

\* C19: every webhook request with a good token and at least one message,
\* for a talker that is not disabled, is answered 200 with accepted equal to
\* the number of its messages that are the first occurrence of their key and
\* are not rejected by the policy; it is never answered with an error.
C19_AcceptedCountIsDefinitive ==
  [][WebhookIngestStep =>
       /\ whLast'.status = 200
       /\ whLast'.accepted =
            Cardinality(FirstAndNotRejected(processed, targets, whLast'.talker,
                                            whLast'.messages))]_vars

\* A request of three messages was answered 200 with fewer accepted than
\* delivered: one was a duplicate or was rejected by the policy.
C19_Witness ==
  /\ whLast.status = 200
  /\ Len(whLast.messages) = 3
  /\ whLast.accepted \in 1..2

(***************************************************************************)
(* C20                                                                     *)
(***************************************************************************)

\* The enum fields of a config and the values each may hold.
EnumFields == {"group_type", "capture_policy", "noise_tolerance", "default_memory_bucket"}

ValidValues(f) ==
  IF f = "group_type" THEN VALID_GROUP_TYPES
  ELSE IF f = "capture_policy" THEN VALID_CAPTURE_POLICIES
  ELSE IF f = "noise_tolerance" THEN VALID_NOISE_TOLERANCE
  ELSE VALID_BUCKETS

\* A stored config holds valid enum values and an importance within 1..5.
ValidConfig(cfg) ==
  /\ \A f \in EnumFields : cfg[f] \in ValidValues(f)
  /\ cfg.importance \in 1..5

\* The step is an upsert, through the endpoint or through the bridge command.
UpsertStep == mgmtOps' = mgmtOps + 1 /\ mgmtLast'.op \in {"upsert", "update"}

\* The config the upsert of this step started from: the stored one, or the
\* default of the talker's type on first creation.
PreviousConfig ==
  IF mgmtLast'.talker \in DOMAIN targets
  THEN targets[mgmtLast'.talker]
  ELSE DefaultTarget(mgmtLast'.talker)

\* C20: after every upsert, each enum field of the talker's stored config
\* holds the written value when that value is known, and otherwise (unknown
\* value, or field not written) the value stored before, or the default of
\* the talker's type on first creation; every stored config holds valid enum
\* values and an importance within 1..5.
C20_UnknownEnumKeepsPreviousValue ==
  [][UpsertStep =>
       /\ mgmtLast'.talker \in DOMAIN targets'
       /\ \A f \in EnumFields :
            targets'[mgmtLast'.talker][f] =
              IF f \in DOMAIN mgmtLast'.updates /\ mgmtLast'.updates[f] \in ValidValues(f)
              THEN mgmtLast'.updates[f]
              ELSE PreviousConfig[f]
       /\ \A t \in DOMAIN targets' : ValidConfig(targets'[t])]_vars

\* An upsert carried an unknown group_type for a talker whose stored
\* group_type was not the default, and the stored value was kept.
C20_Witness ==
  /\ mgmtLast.op \in {"upsert", "update"}
  /\ "group_type" \in DOMAIN mgmtLast.updates
  /\ mgmtLast.updates.group_type \notin VALID_GROUP_TYPES
  /\ mgmtLast.talker \in DOMAIN targets
  /\ targets[mgmtLast.talker].group_type = "learning"

(***************************************************************************)
(* C21                                                                     *)
(***************************************************************************)

\* The fields of a config an upsert may write.
WritableFields == TargetFields \ {"talker"}

\* C21: after every upsert, each field of the talker's config that the
\* updates do not name holds the value it held before; on first creation a
\* group_type and a bucket that are not named are info_gap and 40_ProductMind
\* for a talker with the @chatroom suffix, relationship and 20_Connections
\* for any other; a valid named group_type, bucket or list is written; the
\* config carries its talker; and every other talker's config is unchanged.
C21_UpsertMergesOntoExistingOrDefault ==
  [][UpsertStep =>
       LET t == mgmtLast'.talker
           u == mgmtLast'.updates
       IN /\ t \in DOMAIN targets'
          /\ targets'[t].talker = t
          /\ \A f \in WritableFields \ DOMAIN u :
               /\ t \in DOMAIN targets => targets'[t][f] = targets[t][f]
               /\ (t \notin DOMAIN targets /\ f = "group_type") =>
                    targets'[t][f] = (IF t = "room@chatroom" THEN "info_gap" ELSE "relationship")
               /\ (t \notin DOMAIN targets /\ f = "default_memory_bucket") =>
                    targets'[t][f] = (IF t = "room@chatroom" THEN "40_ProductMind"
                                      ELSE "20_Connections")
          /\ \A f \in {"group_type", "default_memory_bucket"} \cap DOMAIN u :
               u[f] \in ValidValues(f) => targets'[t][f] = u[f]
          /\ DOMAIN targets' = DOMAIN targets \cup {t}
          /\ \A o \in DOMAIN targets \ {t} : targets'[o] = targets[o]]_vars

\* A one-field update was merged onto a stored config that holds values that
\* are no default, while the other talker is configured too.
C21_Witness ==
  /\ mgmtLast.op = "update"
  /\ DOMAIN targets = Talkers
  /\ "noise_tolerance" \in DOMAIN mgmtLast.updates
  /\ targets[mgmtLast.talker].capture_policy = "hybrid"
  /\ targets[mgmtLast.talker].group_type = "learning"
  /\ targets[mgmtLast.talker].noise_tolerance = "high"

(***************************************************************************)
(* C22                                                                     *)
(***************************************************************************)

\* The step is an upsert through POST /api/integrations/chatlog/targets/upsert.
EndpointUpsertStep == mgmtOps' = mgmtOps + 1 /\ mgmtLast'.op = "upsert"

\* C22: after an upsert through the endpoint, every field the request body
\* does not name holds, for a talker that was configured, the value stored
\* before, and for a new talker the default of the talker's type.
C22_EndpointUpsertIsPartial ==
  [][EndpointUpsertStep =>
       \A f \in WritableFields \ DOMAIN mgmtLast'.body :
         targets'[mgmtLast'.talker][f] = PreviousConfig[f]]_vars

\* A body that names some of the fields was posted for a talker whose stored
\* config holds values that are no default.
C22_Witness ==
  /\ mgmtLast.op = "upsert"
  /\ DOMAIN mgmtLast.body # DOMAIN RequestDefaults
  /\ mgmtOps >= 2
  /\ mgmtLast.talker \in DOMAIN targets

(***************************************************************************)
(* C23                                                                     *)
(***************************************************************************)

\* The step is a removal request.
RemoveStep == mgmtOps' = mgmtOps + 1 /\ mgmtLast'.op = "remove"

\* C23: a removal returns true exactly when the talker had a config;
\* afterwards get_target gives None for the talker, no item of list_targets
\* and no entry of enabled_talkers is the talker, and every other talker's
\* config is as before; a removal that follows a removal of the same talker
\* returns false and leaves the document as it was.
C23_RemoveDeletesExactlyOneConfig ==
  [][RemoveStep =>
       LET t == mgmtLast'.talker
       IN /\ mgmtLast'.removed <=> t \in DOMAIN targets
          /\ GetTarget(targets', t) = <<>>
          /\ \A i \in DOMAIN ListTargets(targets') : ListTargets(targets')[i].talker # t
          /\ t \notin RangeOf(EnabledTalkers(targets'))
          /\ DOMAIN targets' = DOMAIN targets \ {t}
          /\ \A o \in DOMAIN targets' : targets'[o] = targets[o]
          /\ (mgmtLast.op = "remove" /\ mgmtLast.talker = t) =>
               (~mgmtLast'.removed /\ targets' = targets)]_vars

\* The config of an enabled talker was removed while the other talker stays
\* configured.
C23_Witness ==
  /\ mgmtLast.op = "remove"
  /\ mgmtLast.removed
  /\ DOMAIN targets = Talkers \ {mgmtLast.talker}

(***************************************************************************)
(* C24                                                                     *)
(***************************************************************************)

\* The talkers of the sequence are exactly the talkers of the document whose
\* config says enabled, each once, in the order of their identifiers as
\* strings ("room@chatroom" sorts before "wxid_a").
IsEnabledInOrder(s, cfgs) ==
  /\ RangeOf(s) = {t \in DOMAIN cfgs : cfgs[t].enabled}
  /\ \A i, j \in DOMAIN s : i < j => (s[i] = "room@chatroom" /\ s[j] = "wxid_a")

\* What C24 says of one step.
CycleFetchesTheEnabledTalkers ==
  /\ (bf.pc = "start" /\ bf'.pc # "start") =>
        IF \A t \in DOMAIN targets : ~targets[t].enabled
        THEN /\ bf'.pc = "sleeping"
             /\ UNCHANGED <<processed, checkpoints, runtime, notes, bfLast>>
        ELSE /\ bf'.pc = "running"
             /\ bf'.run.idx = 1
             /\ IsEnabledInOrder(bf'.run.talkers, targets)
  /\ (bf.pc = "running" /\ bf'.pc = "running") => bf'.run.talkers = bf.run.talkers
  /\ BackfillStep =>
        /\ bf.pc = "running"
        /\ bf.run.idx \in DOMAIN bf.run.talkers
        /\ bfLast'.talker = bf.run.talkers[bf.run.idx]
        /\ bf'.pc = "crashed" \/ bf'.run.idx = bf.run.idx + 1
  /\ (bf.pc = "running" /\ bf'.pc = "sleeping") =>
        [i \in DOMAIN bfLog |-> bfLog[i].talker] = bf.run.talkers
  /\ (bf.pc = "sleeping" /\ bf'.pc # "sleeping") => bf'.pc = "start"

CycleErrors == Cardinality({i \in DOMAIN bfLog : bfLog[i].outcome = "fetch_error"})

\* What C25 says of one step: the end of a cycle that returned a report
\* raises the streak by one when the cycle had errors and resets it to zero
\* when it had none; no other step changes it.
StreakFollowsCycles ==
  IF BackfillCycleEndStep
  THEN /\ runtime'.last_backfill_report # <<>>
       /\ runtime'.last_backfill_report[1].errors = CycleErrors
       /\ runtime'.backfill_consecutive_error_runs =
            IF CycleErrors > 0 THEN runtime.backfill_consecutive_error_runs + 1 ELSE 0
  ELSE runtime'.backfill_consecutive_error_runs = runtime.backfill_consecutive_error_runs

\* C25: the error streak is zero before the first cycle, grows by exactly
\* one at the end of each cycle whose report has errors > 0, is reset to zero
\* at the end of each cycle whose report has none, and is changed by nothing
\* else; so it always counts the most recent consecutive cycles with errors.
C25_StreakCountsRecentErrorCycles ==
  /\ runtime.backfill_consecutive_error_runs = 0
  /\ [][StreakFollowsCycles]_vars

\* A cycle without errors has just reset the streak that an earlier cycle
\* with errors had raised.
C25_Witness ==
  /\ bf.pc = "sleeping"
  /\ runtime.backfill_errors_total > 0
  /\ runtime.last_backfill_report # <<>>
  /\ runtime.last_backfill_report[1].errors = 0
  /\ runtime.backfill_consecutive_error_runs = 0

(***************************************************************************)
(* C26                                                                     *)
(***************************************************************************)

\* The step is a computation of the health signals.
HealthStep == health'.n = health.n + 1

\* C26: each computation of the health signals gives backfill_error_alert
\* true exactly when the error streak is at least the threshold, and
\* webhook_dedup_alert true exactly when accepted_total + deduped_total is
\* at least the minimum and deduped_total / (accepted_total + deduped_total),
\* taken as zero without traffic, is at least the ratio threshold; two
\* computations under the same thresholds on the same counters agree; and a
\* computation changes no counter, checkpoint, processed record, note or
\* config.
C26_HealthSignalsArePure ==
  [][HealthStep =>
       LET a == runtime.webhook_accepted_total
           d == runtime.webhook_deduped_total
           num == health'.ratio[1]
           den == health'.ratio[2]
           ratio_reached == IF a + d = 0 THEN num = 0 ELSE d * den >= num * (a + d)
       IN /\ health'.backfill_error_alert
               <=> runtime.backfill_consecutive_error_runs >= health'.threshold
          /\ health'.webhook_dedup_alert <=> (a + d >= health'.min_total /\ ratio_reached)
          /\ (health.n > 0 /\ health.threshold = health'.threshold
                /\ health.min_total = health'.min_total /\ health.ratio = health'.ratio)
               => (/\ health'.backfill_error_alert = health.backfill_error_alert
                   /\ health'.webhook_dedup_alert = health.webhook_dedup_alert)
          /\ UNCHANGED <<runtime, processed, checkpoints, notes, targets>>]_vars

\* The dedup ratio is at the threshold but the traffic is below the minimum:
\* no dedup alert, while the streak has reached its threshold.
C26_Witness ==
  /\ health.n > 0
  /\ runtime.webhook_accepted_total = 0
  /\ runtime.webhook_deduped_total = 1
  /\ health.min_total = 2
  /\ ~health.webhook_dedup_alert
  /\ health.backfill_error_alert

(***************************************************************************)
(* C27                                                                     *)
(***************************************************************************)

\* The bucket C27 gives the note of a talker under a policy document.
StatedBucket(cfgs, talker) ==
  IF talker # "room@chatroom" THEN "20_Connections"
  ELSE IF talker \notin DOMAIN cfgs THEN "40_ProductMind"
  ELSE IF cfgs[talker].group_type = "relationship" THEN "20_Connections"
  ELSE IF cfgs[talker].group_type = "learning" THEN "10_Growth"
  ELSE IF cfgs[talker].group_type = "notification" THEN "00_Inbox"
  ELSE cfgs[talker].default_memory_bucket

\* C27: every 200 response of the webhook carries mode group_digest when the
\* talker ends in @chatroom and contact_realtime otherwise, and the note of
\* a request that accepted a message carries that mode and the bucket of the
\* routing table: 20_Connections for a contact; for a group 20_Connections,
\* 10_Growth or 00_Inbox by group_type relationship, learning or
\* notification, else the config's default_memory_bucket, 40_ProductMind
\* without a config.
C27_ModeAndBucketRouting ==
  [][(WebhookStep /\ whLast'.status = 200) =>
       /\ whLast'.mode = (IF whLast'.talker = "room@chatroom" THEN "group_digest"
                          ELSE "contact_realtime")
       /\ whLast'.accepted > 0 =>
            /\ Len(notes') = Len(notes) + 1
            /\ notes'[Len(notes')].mode = whLast'.mode
            /\ notes'[Len(notes')].bucket = StatedBucket(targets, whLast'.talker)]_vars

\* The note of a group of type learning, whose config names another bucket,
\* went to 10_Growth.
C27_Witness ==
  /\ whLast.status = 200
  /\ whLast.accepted > 0
  /\ whLast.mode = "group_digest"
  /\ whLast.talker \in DOMAIN targets
  /\ targets[whLast.talker].default_memory_bucket = "30_Wealth"
  /\ notes # <<>>
  /\ notes[Len(notes)].bucket = "10_Growth"

(***************************************************************************)
(* C28                                                                     *)
(***************************************************************************)

\* The enabled talkers without the @chatroom suffix.
EnabledContacts == {t \in RangeOf(EnabledTalkers(targets)) : t # "room@chatroom"}

\* C28: in every state, for every enabled talker without the @chatroom
\* suffix and every message the store has no record of for that talker,
\* the webhook counts the message as accepted and so does the backfill,
\* whatever the talker's capture_policy and group_type.
C28_ContactsAreNeverFiltered ==
  \A t \in EnabledContacts, m \in Messages :
    Unseen(t, m) => (WebhookCounts(t, m) /\ BackfillCounts(t, m))

\* The webhook accepted a message without a keyword for a contact whose
\* config says summary_only, which rejects every message of a group.
C28_Witness ==
  /\ whLast.status = 200
  /\ whLast.accepted = 1
  /\ whLast.talker \in EnabledContacts
  /\ targets[whLast.talker].capture_policy = "summary_only"
  /\ whLast.messages[1].content = "hello"

(***************************************************************************)
(* C29                                                                     *)
(***************************************************************************)

\* The policy lets message m of talker t through: t is no group, or it has
\* no config, or _should_accept_group_message says yes.
PassesPolicy(t, m) ==
  ~(/\ IsGroup(t)
    /\ GetTarget(targets, t) # <<>>
    /\ ~ShouldAcceptGroupMessage(GetTarget(targets, t), m))

\* The store holds a row of another talker than t under the bare sequence
\* number of m: the backfill processed a message of that number for the
\* other talker.
BackfillSawSeqForOther(t, m) ==
  /\ ToIntOrNone(m.seq) # NoSeq
  /\ \E r \in processed :
       r.talker # t /\ r.idempotency_key = SeqKey(ToIntOrNone(m.seq))

\* The webhook accepted a message of the sequence number of m for another
\* talker than t, and the store holds no row of t with that number.
WebhookSawSeqForOtherOnly(t, m) ==
  /\ ToIntOrNone(m.seq) # NoSeq
  /\ \E am \in whAccepted :
       am[1] # t /\ ToIntOrNone(am[2].seq) = ToIntOrNone(m.seq)
  /\ ~\E r \in processed :
        r.talker = t /\ r.idempotency_key.seq = ToIntOrNone(m.seq)

\* C29: a backfill fetch for talker B never counts as accepted a message
\* whose sequence number the backfill already processed for another talker
\* A, and when it fetched only such messages B's checkpoint stays as it was;
\* a webhook request for talker B with one message whose sequence number the
\* webhook accepted for another talker A, and which the store has no row of
\* for B, is answered with accepted = 1 when B is enabled and the policy lets
\* the message through.
C29_BackfillKeyIsUnscopedWebhookKeyIsScoped ==
  [][/\ (BackfillStep /\ bfLast'.outcome = "ok")
        => /\ \A m \in RangeOf(bfLast'.fetched) :
                BackfillSawSeqForOther(bfLast'.talker, m)
                => m \notin RangeOf(bfLast'.accepted_messages)
           /\ (\A m \in RangeOf(bfLast'.fetched) :
                 BackfillSawSeqForOther(bfLast'.talker, m))
              => /\ bfLast'.accepted = 0
                 /\ checkpoints'[bfLast'.talker] = checkpoints[bfLast'.talker]
     /\ (/\ WebhookStep
         /\ whLast'.status = 200
         /\ Len(whLast'.messages) = 1
         /\ ~TargetDisabled(GetTarget(targets, whLast'.talker))
         /\ WebhookSawSeqForOtherOnly(whLast'.talker, whLast'.messages[1])
         /\ PassesPolicy(whLast'.talker, whLast'.messages[1]))
        => whLast'.accepted = 1]_vars

\* The backfill fetched for a talker one message that its policy lets
\* through and that the store had no row of for that talker, and counted
\* nothing, because the row under the bare sequence number belongs to the
\* other talker; the talker has no checkpoint, and the webhook, handed the
\* same message for the same talker now, would count it accepted.
C29_Witness ==
  /\ bfLast.outcome = "ok"
  /\ Len(bfLast.fetched) = 1
  /\ bfLast.accepted = 0
  /\ PassesPolicy(bfLast.talker, bfLast.fetched[1])
  /\ BackfillSawSeqForOther(bfLast.talker, bfLast.fetched[1])
  /\ ~\E r \in processed : r.talker = bfLast.talker
  /\ ~checkpoints[bfLast.talker].row
  /\ WebhookCounts(bfLast.talker, bfLast.fetched[1])

(***************************************************************************)
(* C30                                                                     *)
(***************************************************************************)

\* The step is a webhook request that passed validation and the token check
\* for a talker that is not disabled: the handler's loop runs.
WebhookLoopRuns ==
  /\ WebhookStep
  /\ whLast'.token_ok
  /\ whLast'.messages # <<>>
  /\ ~TargetDisabled(GetTarget(targets, whLast'.talker))

\* The store holds a row under the webhook's key of every message of the
\* request that is served in this step.
AllDeliveredBefore ==
  \A m \in RangeOf(whLast'.messages) :
    HasKey(processed, WebhookKey(whLast'.talker, m))

\* C30: no step removes a processed-message record, whatever it does to the
\* configs; a webhook request whose loop runs leaves a record under the key
\* of every message the talker's policy rejects, and accepts none of them;
\* and a request whose messages all have a record already is answered with
\* accepted = 0 and advances no checkpoint, writes no note and, when the
\* talker is not disabled, counts every message as deduped, whatever the
\* talker's config is by then.
C30_RejectedMessageStaysProcessed ==
  [][/\ processed \subseteq processed'
     /\ WebhookLoopRuns
        => \A m \in RangeOf(whLast'.messages) :
             ~PassesPolicy(whLast'.talker, m)
             => /\ HasKey(processed', WebhookKey(whLast'.talker, m))
                /\ <<whLast'.talker, m>> \notin (whAccepted' \ whAccepted)
     /\ (WebhookLoopRuns /\ AllDeliveredBefore)
        => /\ whLast'.status = 200
           /\ whLast'.accepted = 0
           /\ runtime'.webhook_deduped_total =
                runtime.webhook_deduped_total + Len(whLast'.messages)
           /\ UNCHANGED <<checkpoints, notes, whAccepted>>]_vars

\* Two requests were served and both were counted deduped although the
\* webhook never accepted anything and the store holds one row: the first
\* delivery of a group message was rejected by the policy, then the talker's
\* policy was changed or its config removed, so that the message passes now,
\* and the redelivery after the change was counted deduped.
C30_Witness ==
  /\ whLast.n = 2
  /\ whLast.status = 200
  /\ whLast.accepted = 0
  /\ IsGroup(whLast.talker)
  /\ mgmtLast.op \in {"update", "remove"}
  /\ mgmtLast.talker = whLast.talker
  /\ mgmtLast.served = 1
  /\ ~TargetDisabled(GetTarget(targets, whLast.talker))
  /\ PassesPolicy(whLast.talker, whLast.messages[1])
  /\ HasKey(processed, WebhookKey(whLast.talker, whLast.messages[1]))
  /\ Cardinality(processed) = 1
  /\ whAccepted = {}
  /\ runtime.webhook_deduped_total = 2
  /\ ~checkpoints[whLast.talker].row

(***************************************************************************)
(* C31                                                                     *)
(***************************************************************************)

\* The talker's policy rejects message m on the backfill path.
BackfillRejects(t, m) == ~BackfillShouldAccept(targets, t, m)

\* C31: a backfill step that completes leaves no record under the key of a
\* fetched message its policy rejects and does not accept it, and when the
\* policy rejects everything fetched the talker's checkpoint stays as it
\* was; and it accepts every fetched message that the policy lets through
\* and that the store holds no record of for that talker, as a message is
\* that was only ever rejected before the policy changed.
C31_RejectedByBackfillIsAcceptedAfterRetune ==
  [][(BackfillStep /\ bfLast'.outcome = "ok")
     => LET t == bfLast'.talker
        IN /\ \A m \in RangeOf(bfLast'.fetched) :
                BackfillRejects(t, m)
                => /\ ~HasKey(processed' \ processed, BackfillKey(t, m))
                   /\ m \notin RangeOf(bfLast'.accepted_messages)
           /\ (\A m \in RangeOf(bfLast'.fetched) : BackfillRejects(t, m))
              => checkpoints'[t] = checkpoints[t]
           /\ \A m \in RangeOf(bfLast'.fetched) :
                (~BackfillRejects(t, m) /\ Unseen(t, m))
                => m \in RangeOf(bfLast'.accepted_messages)]_vars

\* The part of C31 that holds: a cycle scanned a message and accepted
\* nothing while the store was empty, so the policy rejected it and left no
\* record; the group's important_people was then changed to name the
\* sender, and the next fetch that returned the message accepted it and
\* stored the group's first checkpoint.
C31_Witness ==
  /\ bfLast.outcome = "ok"
  /\ IsGroup(bfLast.talker)
  /\ bfLast.fetched = <<MessageTable[1]>>
  /\ bfLast.accepted = 1
  /\ mgmtOps = 1
  /\ mgmtLast.talker = bfLast.talker
  /\ mgmtLast.updates = [capture_policy |-> "hybrid", important_people |-> <<"bob">>]
  /\ runtime.last_backfill_report # <<>>
  /\ runtime.last_backfill_report[1].scanned = 1
  /\ runtime.last_backfill_report[1].accepted = 0
  /\ runtime.last_backfill_report[1].errors = 0
  /\ Cardinality(processed) = 1
  /\ checkpoints[bfLast.talker].row

(***************************************************************************)
(* C32                                                                     *)
(***************************************************************************)

\* The step serves again, with the right token, the request the webhook
\* answered 500 just before.
RedeliveryAfterFailure ==
  /\ WebhookStep
  /\ whLast.status = 500
  /\ whLast'.token_ok
  /\ whLast'.talker = whLast.talker
  /\ whLast'.messages = whLast.messages

\* C32: a webhook request that is answered 500, because persisting the note
\* failed, leaves processed_messages as it was before the request; and when
\* the same request is delivered again and answered 200, it accepts at least
\* one message.
C32_FailedNoteLeavesMessagesUnprocessed ==
  [][/\ (WebhookStep /\ whLast'.status = 500) => processed' = processed
     /\ (RedeliveryAfterFailure /\ whLast'.status = 200) => whLast'.accepted > 0]_vars

\* What the code does instead: the second request for a contact, whose
\* messages all have a row of that talker, was answered 200 with accepted = 0
\* although no note was ever written and no request was ever answered with
\* an accepted message: the rows and the checkpoint are those of a first
\* delivery whose note failed.
C32_Witness ==
  /\ whLast.n = 2
  /\ whLast.status = 200
  /\ whLast.accepted = 0
  /\ ~IsGroup(whLast.talker)
  /\ ~TargetDisabled(GetTarget(targets, whLast.talker))
  /\ \A m \in RangeOf(whLast.messages) : HasKey(processed, WebhookKey(whLast.talker, m))
  /\ \A r \in processed : r.talker = whLast.talker
  /\ checkpoints[whLast.talker].row
  /\ notes = <<>>
  /\ whAccepted = {}

(***************************************************************************)
(* C33                                                                     *)
(***************************************************************************)

\* The stored checkpoint cp is at least as new as every message of msgs
\* under the ordering of advance_checkpoint: parsed instant, then seq with an
\* absent seq as -1.
CoversAll(cp, msgs) ==
  \A i \in DOMAIN msgs : NormLeq(Norm(TimeSeqOf(msgs[i])), Norm(<<cp.time, cp.seq>>))

\* C33: after a backfill talker step that completes, and after a webhook
\* request answered 200, that accepted messages whose times all parse, the
\* talker has a checkpoint and it is at least as new as every message
\* accepted in that step or request.
C33_CheckpointCoversAcceptedBatch ==
  [][/\ (BackfillStep /\ bfLast'.outcome = "ok" /\ bfLast'.accepted > 0
           /\ TimesParse(bfLast'.accepted_messages))
        => /\ checkpoints'[bfLast'.talker].row
           /\ CoversAll(checkpoints'[bfLast'.talker], bfLast'.accepted_messages)
     /\ (WebhookStep /\ whLast'.status = 200 /\ whLast'.accepted > 0
           /\ TimesParse(WebhookLoopOfStep.accepted_messages))
        => /\ checkpoints'[whLast'.talker].row
           /\ CoversAll(checkpoints'[whLast'.talker], WebhookLoopOfStep.accepted_messages)]_vars

\* The part of C33 that holds: the second request accepted the message of
\* the older instant alone; advance_checkpoint kept the checkpoint the first
\* request stored for the newer message, which covers the message accepted
\* now.
C33_Witness ==
  /\ whLast.n = 2
  /\ whLast.status = 200
  /\ whLast.accepted = 1
  /\ whLast.messages = <<MessageTable[1]>>
  /\ checkpoints[whLast.talker] =
       CheckpointRow(MessageTime(MessageTable[2]), ToIntOrNone(MessageTable[2].seq))
  /\ CoversAll(checkpoints[whLast.talker], whLast.messages)

(***************************************************************************)
(* C34                                                                     *)
(***************************************************************************)

\* webhook_accepted_total + webhook_deduped_total
CountedTotal(rt) == rt.webhook_accepted_total + rt.webhook_deduped_total

\* C34: every webhook request adds to webhook_accepted_total +
\* webhook_deduped_total the number of its messages when it passed
\* validation, the token check and the disabled check, and nothing when it
\* did not.
C34_CountersSumToMessagesServed ==
  [][WebhookStep =>
       CountedTotal(runtime') =
         CountedTotal(runtime) + (IF WebhookLoopRuns THEN Len(whLast'.messages) ELSE 0)]_vars

\* The part of C34 that holds: a first request of two messages was counted,
\* one message accepted and one deduped, and the second request, for a
\* disabled talker, added nothing.
C34_Witness ==
  /\ whLast.n = 2
  /\ whLast.status = 200
  /\ TargetDisabled(GetTarget(targets, whLast.talker))
  /\ runtime.webhook_accepted_total = 1
  /\ runtime.webhook_deduped_total = 1
  /\ whLast.delivered = 2 + Len(whLast.messages)

(***************************************************************************)
(* C35                                                                     *)
(***************************************************************************)

\* The last backfill report counts an error.
LastReportHasErrors ==
  runtime.last_backfill_report # <<>> /\ runtime.last_backfill_report[1].errors > 0

\* C35: each answer of the health endpoint has status degraded exactly when
\* the bridge heartbeat is stale, or backfill_error_alert is true, or
\* webhook_dedup_alert is true, or the last backfill report has errors > 0,
\* and ok otherwise; so it is degraded whenever the last report has an error,
\* also with the error streak below the alert threshold.
C35_DegradedIffAnySignal ==
  [][HealthStep =>
       /\ health'.status \in {"ok", "degraded"}
       /\ health'.status = "degraded"
            <=> \/ health'.bridge = "stale"
                \/ health'.backfill_error_alert
                \/ health'.webhook_dedup_alert
                \/ LastReportHasErrors
       /\ (LastReportHasErrors
             /\ runtime.backfill_consecutive_error_runs < health'.threshold)
            => health'.status = "degraded"]_vars

\* The endpoint answered degraded with a fresh bridge heartbeat and no alert:
\* the last cycle had an error and the streak, 1, is below the threshold 2.
C35_Witness ==
  /\ health.n > 0
  /\ health.status = "degraded"
  /\ health.bridge = "ok"
  /\ ~health.backfill_error_alert
  /\ ~health.webhook_dedup_alert
  /\ runtime.backfill_consecutive_error_runs = 1
  /\ health.threshold = 2
  /\ LastReportHasErrors

(***************************************************************************)
(* C36                                                                     *)
(***************************************************************************)

\* A fetch window is computed in this step.
WindowStep == window'.n = window.n + 1

\* C36: every fetch window the backfill computes has a from date that is not
\* later than its to date, for every checkpoint time, in any UTC offset,
\* whose instant is not after now, and for every bootstrap_days without a
\* checkpoint.
C36_WindowIsWellFormed ==
  [][WindowStep => window'.from_date <= window'.to_date]_vars

\* The part of C36 that holds: for a checkpoint time written in an offset
\* behind UTC, whose instant falls on today's UTC date, the from date is the
\* day before the to date.
C36_Witness ==
  /\ window.n > 0
  /\ window.checkpoint_time # <<>>
  /\ window.checkpoint_time[1].offset < 0
  /\ ToDateStr(InstantOf(window.checkpoint_time[1])) = window.to_date
  /\ window.from_date < window.to_date

(***************************************************************************)
(* C37                                                                     *)
(***************************************************************************)

\* The worker makes a policy decision in this step.
DecideStep == policyCall'.n = policyCall.n + 1

\* The values stored for the group: the config in the document, and, while a
\* management request is writing the document, the config in the document
\* being written (<<>> when the document has none).
StoredForGroup ==
  {GetTarget(targets, "room@chatroom")}
    \cup (IF saving = <<>> THEN {} ELSE {GetTarget(saving[1].doc, "room@chatroom")})

\* C37: every policy decision of the worker for the group uses the config
\* of the document before the concurrent upsert or remove, or the one after
\* it; so a group that has a config before and after the write is never
\* decided by the no-config default.
C37_WorkerReadsAStoredConfig ==
  [][DecideStep =>
       /\ policyCall'.target \in StoredForGroup
       /\ (<<>> \notin StoredForGroup) => policyCall'.target # <<>>]_vars

\* The part of C37 that holds: with no write in progress, after an upsert
\* of the group's config completed, the worker decided with the config the
\* upsert stored.
C37_Witness ==
  /\ policyCall.n > 0
  /\ saving = <<>>
  /\ mgmtLast.op = "upsert"
  /\ mgmtLast.talker = "room@chatroom"
  /\ "room@chatroom" \in DOMAIN targets
  /\ policyCall.target = <<targets["room@chatroom"]>>
  /\ targets["room@chatroom"].important_people = <<"bob">>
  /\ policyCall.message = <<MessageTable[1]>>
  /\ policyCall.result

(***************************************************************************)
(* C38                                                                     *)
(***************************************************************************)

\* The tasks of the chat that are inside _handle_text_async.
Handling(chat_id) ==
  {i \in DOMAIN bridge.tasks :
     bridge.tasks[i].chat = chat_id /\ bridge.tasks[i].pc = "handling"}

\* C38: in every state at most one task per chat_id is inside
\* _handle_text_async, and a task that is suspended on its chat's lock has a
\* task of the same chat_id that holds the lock or has been handed it: no
\* task waits because of a handler of another chat.
C38_OneHandlerPerChat ==
  /\ \A c \in BridgeChats : Cardinality(Handling(c)) <= 1
  /\ \A i \in DOMAIN bridge.tasks :
       bridge.tasks[i].pc = "waiting"
       => \E j \in DOMAIN bridge.tasks :
            /\ j # i
            /\ bridge.tasks[j].chat = bridge.tasks[i].chat
            /\ bridge.tasks[j].pc \in {"handling", "woken"}

\* Handlers of two chats are active at once while a second message of one of
\* the chats waits for its lock.
C38_Witness ==
  /\ \A c \in BridgeChats : Cardinality(Handling(c)) = 1
  /\ \E i \in DOMAIN bridge.tasks : bridge.tasks[i].pc = "waiting"

(***************************************************************************)
(* C39                                                                     *)
(***************************************************************************)

\* The handler of the latest message has returned.
Handled == agent.pc = "idle" /\ agent.n > 0

\* The attempts to send an error message among the sends of the message.
ErrorSends == {i \in DOMAIN agent.sends : agent.sends[i].text.kind = "error"}

\* C39: once the handler of a message has returned, a first agent run that
\* timed out was followed by exactly one more run, with force_new_client
\* true and the conversation id of the first; a reply of that second run is
\* the text of the first send; a message whose last run timed out or raised
\* has exactly one attempt to send an error message; there are never more
\* than two runs, and at least one send was attempted.
C39_TimeoutRetriedOnceAndAlwaysAnswered ==
  Handled =>
    /\ Len(agent.calls) <= 2
    /\ (agent.outcomes # <<>> /\ agent.outcomes[1] = "timeout")
       => /\ Len(agent.calls) = 2
          /\ agent.calls[2] = [conversation_id |-> agent.calls[1].conversation_id,
                               force_new_client |-> TRUE]
    /\ (Len(agent.outcomes) = 2 /\ agent.outcomes[2] = "reply")
       => /\ agent.sends # <<>>
          /\ agent.sends[1].text = [kind |-> "reply", body |-> "retry"]
    /\ (agent.outcomes # <<>> /\ agent.outcomes[Len(agent.outcomes)] # "reply")
       => Cardinality(ErrorSends) = 1
    /\ agent.sends # <<>>

\* An ordinary message whose first run timed out: the second run was made
\* with force_new_client true on the same conversation id, and its reply is
\* the one message sent to the chat.
C39_Witness ==
  /\ Handled
  /\ agent.text = "hello"
  /\ agent.outcomes = <<"timeout", "reply">>
  /\ agent.calls = <<[conversation_id |-> agent.conversation_id, force_new_client |-> FALSE],
                     [conversation_id |-> agent.conversation_id, force_new_client |-> TRUE]>>
  /\ agent.sends = <<[chat_id |-> agent.chat_id,
                      text |-> [kind |-> "reply", body |-> "retry"], ok |-> TRUE]>>

====
